---- MODULE Spec2Model ----
(***************************************************************************)
(* EHR Integration Dashboard: the browser-side Session Client              *)
(* (lib/axiosInstance.ts: request/response interceptors, the isRefreshing  *)
(* flag and failedQueue), the patient Resource Mapper (the route          *)
(* transformations and the edit modal's handleSave) and the server routes  *)
(* (patient list, get, update and login).                                  *)
(*                                                                         *)
(* The Session Client runs in a browser tab: the guards                    *)
(* `typeof window !== 'undefined'` are true and document.cookie is the     *)
(* Token Store.  JavaScript is single threaded: a handler runs to its      *)
(* first await (or to its end, promise reactions included) before any      *)
(* network response is delivered, so each action below is one such run.    *)
(*                                                                         *)
(* Five specifications share the variables: Spec (the Session Client),     *)
(* ModalSpec (the edit modal of one patient), GatewaySpec (the server      *)
(* routes), BrowserSpec (one tab: the login form, the routes' Set-Cookie   *)
(* headers, the Session Client and logout over the same cookie store) and  *)
(* DashboardSpec (the patients dashboard opening and closing the modal     *)
(* while its fetches are in flight).                                       *)
(***************************************************************************)
EXTENDS Integers, Sequences, FiniteSets, TLC

VARIABLES
    isRefreshing,   \* axiosInstance.ts: let isRefreshing
    failedQueue,    \* axiosInstance.ts: let failedQueue (continuations, by call)
    cookies,        \* the cookie jar read and written through document.cookie
    httpJar,        \* the cookies the browser holds with the HttpOnly attribute
                    \* (document.cookie neither shows nor overwrites them)
    location,       \* window.location.href
    phase,          \* per call: where its promise stands
    retry,          \* per call: originalRequest._retry
    auth,           \* per call: Authorization header of its latest issue
    attempts,       \* per call: how many times it was issued
    err,            \* per call: the error it was rejected with
    handed,         \* per call: the token its continuation was resolved with
    got401,         \* per call: how many 401 responses it received
    lateCall,       \* some call was first issued after a refresh had been started
    refreshInFlight,\* refresh-grant calls awaiting their response
    refreshCalls,   \* refresh-grant calls issued so far
    refreshSent,    \* refresh_token parameter of the latest refresh call
    refreshOwner,   \* the call whose 401 started the refresh in flight
    refreshLog,     \* the answers the refresh endpoint has given, in order
    modalOpen,      \* PatientsDashboard: useState modalOpen (the prop isOpen)
    selectedPatientId, \* PatientsDashboard: useState selectedPatientId (the
                    \* prop patientId; "" for null)
    modalMode,      \* PatientsDashboard: useState modalMode (the prop mode)
    fetching,       \* the fetchPatientData runs awaiting their GET, in call
                    \* order: the patient id and the route's answer on its
                    \* way to the page (Empty: none yet)
    patient,        \* PatientsModal: useState patient (Empty for null)
    formData,       \* PatientsModal: useState formData
    mode,           \* PatientsModal: useState mode
    loading,        \* PatientsModal: useState loading
    saving,         \* PatientsModal: useState saving
    putInFlight,    \* the PUT /api/patients/[id] call handleSave awaits: the
                    \* document the route sends to the remote API and the
                    \* route's answer on its way to the page (Empty: none yet)
    remoteDoc,      \* the patient resource the remote API holds
    gwToken,        \* the access_token cookie the server routes receive
    edits,          \* form changes made so far
    saves,          \* handleSave runs so far
    route,          \* the server route handling a request ("none" when idle)
    routeIn,        \* that request: cookies, path id, query, body, form fields
    routePhase,     \* "idle", "calling" (awaiting the remote API), "answered"
    outbound,       \* the calls the route made to the remote API for it
    remote,         \* the remote API's answer to the outbound call (Empty: none)
    response,       \* the route's response: status, body, cookies set
    serverLog,      \* what the route wrote with console.error for it
    nodeEnv,        \* process.env.NODE_ENV of the deployment
    served,         \* requests the server routes have taken so far
    arriving        \* the routes' responses with Set-Cookie headers on their
                    \* way to the browser tab that sent the requests (none
                    \* when another client called the route)

svars == <<isRefreshing, failedQueue, cookies, httpJar, location, phase, retry, auth,
           attempts, err, handed, got401, lateCall, refreshInFlight,
           refreshCalls, refreshSent, refreshOwner, refreshLog>>

mvars == <<modalOpen, selectedPatientId, modalMode, fetching, patient,
           formData, mode,
           loading, saving, putInFlight, remoteDoc, gwToken, edits, saves>>

gvars == <<route, routeIn, routePhase, outbound, remote, response, serverLog,
           nodeEnv, served, arriving>>

vars == <<svars, mvars, gvars>>

----------------------------------------------------------------------------
(* Bounds *)

NumReqs == 3
NumTabReqs == 1
MaxRefresh == 2
MaxEdits == 2
MaxSaves == 1
MaxGiven == 2
MaxTelecom == 2
MaxFetches == 2
MaxServed == 2

Reqs == 1..NumReqs
TabReqs == 1..NumTabReqs

----------------------------------------------------------------------------
(* Strings are sequences of symbols; "=" is the only symbol the code's    *)
(* cookie parsing treats specially (base64 padding of an opaque token).   *)

Undefined == <<"#undefined">>   \* the JavaScript value undefined
NoHeader  == <<"#noheader">>    \* no Authorization header on the request
NoToken   == <<"#notoken">>     \* continuation not resolved with a token
NoCall    == 0                  \* no call owns a refresh

Empty == [k \in {} |-> <<>>]

\* `${v}` in a template literal
TemplateStr(v) == IF v = Undefined THEN <<"undefined">> ELSE v

\* JavaScript truthiness of a string-or-undefined value
Truthy(v) == v # Undefined /\ v # <<>>

\* 'name=value'.split('=')[1]: the value up to its first "="
RECURSIVE SplitEq1(_)
SplitEq1(s) ==
    IF s = <<>> THEN <<>>
    ELSE IF Head(s) = "=" THEN <<>>
    ELSE <<Head(s)>> \o SplitEq1(Tail(s))

\* cookies.find(c => c.trim().startsWith(name + '='))
CookieFound(jar, name) == name \in DOMAIN jar

\* Request interceptor: Authorization = `Bearer ${cookie value}` when the
\* access_token cookie is found, else the header the config already has.
AttachBearer(jar, prior) ==
    IF CookieFound(jar, "access_token")
    THEN SplitEq1(jar["access_token"])
    ELSE prior

\* Response interceptor, lines 98-107: the refresh token read from cookies
ReadRefreshToken(jar) ==
    IF CookieFound(jar, "refresh_token")
    THEN SplitEq1(jar["refresh_token"])
    ELSE <<>>

\* refreshResponse.data fields; a missing property reads as undefined
Field(d, k) == IF k \in DOMAIN d THEN d[k] ELSE Undefined

\* Variant: only the access_token cookie is rewritten
WriteAccessTokenOnly(jar, d) ==
    [k \in DOMAIN jar \cup {"access_token"} |->
        IF k = "access_token" THEN TemplateStr(Field(d, k)) ELSE jar[k]]

\* The names of the two cookies of the token pair
TokenNames == {"access_token", "refresh_token"}

\* Lines 132-135: both cookies are written from the refresh response; a
\* write to document.cookie sets one cookie and leaves the others
WriteTokenPair(jar, d) ==
    [k \in DOMAIN jar \cup TokenNames |->
        IF k \in TokenNames THEN TemplateStr(Field(d, k)) ELSE jar[k]]

\* Variant: only the access_token cookie is expired
ClearAccessTokenOnly(jar) ==
    [k \in DOMAIN jar \ {"access_token"} |-> jar[k]]

\* Lines 147-148 (and logout): both cookies are expired, the others stay
ClearTokens(jar) == [k \in DOMAIN jar \ TokenNames |-> jar[k]]

\* document.cookie = '...': the browser ignores a script's write to a cookie
\* it holds with the HttpOnly attribute; jar is the jar as the script wrote it
Unprotected(jar) == [k \in DOMAIN jar \ DOMAIN httpJar |-> jar[k]]

\* processQueue's choice for every queued continuation (lines 39-45)
processQueue(error, token) ==
    IF error # "none" THEN "reject"
    ELSE IF Truthy(token) THEN "resolve"
    ELSE "pending"

\* Variant: the flag is not consulted
MustQueueNever(flag) == FALSE

\* Line 80: a 401 while a refresh is in flight is queued
MustQueue(flag) == flag

\* Variant: the flag is left as it is on the way out
FinallySkipped(flag) == flag

\* The finally block (line 154)
Finally(flag) == FALSE

\* Set of calls in the queue
Queued == {failedQueue[i] : i \in 1..Len(failedQueue)}

----------------------------------------------------------------------------
(* Inputs *)

\* Jars the tab may start with: no cookie at all, or a cookie of the page
\* that is no token next to a pair (its access token ends in base64 padding)
\* or next to a refresh token whose access token has expired
InitialJars ==
    { Empty,
      [theme |-> <<"dark">>, access_token |-> <<"a0", "=">>,
       refresh_token |-> <<"r0">>],
      [theme |-> <<"dark">>, refresh_token |-> <<"r0">>] }

\* The opaque token of kind k ("a" access, "r" refresh) that the
\* authorization server issues in answer to the n-th refresh call
IssuedToken(k, n) == <<k>> \o [i \in 1..n |-> "+"]

\* Bodies the refresh endpoint may answer the n-th refresh call 2xx with:
\* a fresh pair, or a body without access_token
RefreshData(n) ==
    { [access_token |-> IssuedToken("a", n),
       refresh_token |-> IssuedToken("r", n)],
      [k \in {"refresh_token"} |-> IssuedToken("r", n)] }

\* Every body the refresh endpoint may answer with
AllRefreshData == UNION {RefreshData(n) : n \in 1..MaxRefresh}

\* Ways the refresh can fail: the POST rejects, or its body is null and the
\* destructuring on line 130 throws
RefreshErrors == {"AxiosError", "TypeError"}

\* Failures of a call other than a 401 response: another status, a network
\* error (no response), the 30 s timeout (line 23)
OtherErrors == <<"500", "ERR_NETWORK", "ECONNABORTED">>

\* The failure the network has in store for call r, should the call fail
\* otherwise than with a 401 (the calls are handled alike, so the three kinds
\* are spread over them)
FailureOf(r) == OtherErrors[((r - 1) % Len(OtherErrors)) + 1]

----------------------------------------------------------------------------
(* Session Client *)

SInit ==
    /\ isRefreshing = FALSE
    /\ failedQueue = <<>>
    /\ cookies \in InitialJars
    /\ httpJar = Empty
    /\ location = "/app"
    /\ phase = [r \in Reqs |-> "new"]
    /\ retry = [r \in Reqs |-> FALSE]
    /\ auth = [r \in Reqs |-> NoHeader]
    /\ attempts = [r \in Reqs |-> 0]
    /\ err = [r \in Reqs |-> "none"]
    /\ handed = [r \in Reqs |-> NoToken]
    /\ got401 = [r \in Reqs |-> 0]
    /\ lateCall = FALSE
    /\ refreshInFlight = 0
    /\ refreshCalls = 0
    /\ refreshSent = <<>>
    /\ refreshOwner = NoCall
    /\ refreshLog = <<>>

\* apiClient(config): the request interceptor attaches the token, the call
\* is issued
Request(r) ==
    /\ UNCHANGED <<mvars, gvars, httpJar>>
    /\ phase[r] = "new"
    /\ \A q \in Reqs : q < r => phase[q] # "new"  \* calls are numbered in call order
    /\ phase' = [phase EXCEPT ![r] = "sent"]
    /\ auth' = [auth EXCEPT ![r] = AttachBearer(cookies, NoHeader)]
    /\ attempts' = [attempts EXCEPT ![r] = 1]
    /\ lateCall' = (lateCall \/ refreshCalls > 0)
    /\ UNCHANGED <<isRefreshing, failedQueue, cookies, location, retry, err,
                   handed, got401, refreshInFlight, refreshCalls, refreshSent,
                   refreshOwner, refreshLog>>

\* Response interceptor, success handler (line 73)
RespondOk(r) ==
    /\ UNCHANGED <<mvars, gvars, httpJar>>
    /\ phase[r] = "sent"
    /\ phase' = [phase EXCEPT ![r] = "done"]
    /\ UNCHANGED <<isRefreshing, failedQueue, cookies, location, retry, auth,
                   attempts, err, handed, got401, lateCall, refreshInFlight,
                   refreshCalls, refreshSent, refreshOwner, refreshLog>>

\* Variant: every failure is handled like a failed authentication
RespondErrorAsAuthFailure(r, e) ==
    /\ UNCHANGED <<mvars, gvars, httpJar>>
    /\ phase[r] = "sent"
    /\ phase' = [phase EXCEPT ![r] = "failed"]
    /\ err' = [err EXCEPT ![r] = e]
    /\ cookies' = ClearTokens(cookies)
    /\ location' = "/login"
    /\ UNCHANGED <<isRefreshing, failedQueue, retry, auth,
                   attempts, handed, got401, lateCall, refreshInFlight,
                   refreshCalls, refreshSent, refreshOwner, refreshLog>>

\* Response interceptor, error handler (line 74) with an error e that is not
\* a 401 response: the condition on line 79 is false and line 158 rejects
\* with the error it was given
RespondError(r, e) ==
    /\ UNCHANGED <<mvars, gvars, httpJar>>
    /\ phase[r] = "sent"
    /\ phase' = [phase EXCEPT ![r] = "failed"]
    /\ err' = [err EXCEPT ![r] = e]
    /\ UNCHANGED <<isRefreshing, failedQueue, cookies, location, retry, auth,
                   attempts, handed, got401, lateCall, refreshInFlight,
                   refreshCalls, refreshSent, refreshOwner, refreshLog>>

\* Response interceptor, error handler with status 401 (lines 74-158), up to
\* its first await
Respond401(r) ==
    /\ UNCHANGED <<mvars, gvars, httpJar>>
    /\ phase[r] = "sent"
    /\ got401' = [got401 EXCEPT ![r] = @ + 1]
    /\ IF retry[r]
       THEN \* line 158: Promise.reject(error)
            /\ phase' = [phase EXCEPT ![r] = "failed"]
            /\ err' = [err EXCEPT ![r] = "401"]
            /\ UNCHANGED <<isRefreshing, failedQueue, cookies, location,
                           retry, refreshInFlight, refreshCalls, refreshSent,
                           refreshOwner>>
       ELSE IF MustQueue(isRefreshing)
       THEN \* lines 81-83: failedQueue.push({resolve, reject})
            /\ failedQueue' = Append(failedQueue, r)
            /\ phase' = [phase EXCEPT ![r] = "queued"]
            /\ UNCHANGED <<isRefreshing, cookies, location, retry, err,
                           refreshInFlight, refreshCalls, refreshSent,
                           refreshOwner>>
       ELSE IF ~Truthy(ReadRefreshToken(cookies))
       THEN \* lines 93-94, 109-114, 154
            /\ retry' = [retry EXCEPT ![r] = TRUE]
            /\ location' = "/login"
            /\ phase' = [phase EXCEPT ![r] = "failed"]
            /\ err' = [err EXCEPT ![r] = "401"]
            /\ isRefreshing' = Finally(TRUE)
            /\ UNCHANGED <<failedQueue, cookies, refreshInFlight,
                           refreshCalls, refreshSent, refreshOwner>>
       ELSE \* lines 93-94, 116-128: axios.post(... grant_type=refresh_token)
            /\ refreshCalls < MaxRefresh
            /\ retry' = [retry EXCEPT ![r] = TRUE]
            /\ isRefreshing' = TRUE
            /\ phase' = [phase EXCEPT ![r] = "refreshing"]
            /\ refreshInFlight' = refreshInFlight + 1
            /\ refreshCalls' = refreshCalls + 1
            /\ refreshSent' = ReadRefreshToken(cookies)
            /\ refreshOwner' = r
            /\ UNCHANGED <<failedQueue, cookies, location, err>>
    /\ UNCHANGED <<auth, attempts, handed, lateCall, refreshLog>>

\* The refresh POST resolves with body d (lines 130-142, 154) and the
\* reactions of the resolved continuations run (lines 84-89)
RefreshSuccess(d) ==
    /\ UNCHANGED <<mvars, gvars, httpJar>>
    /\ refreshInFlight > 0
    /\ d \in RefreshData(refreshCalls)
    /\ LET t == refreshOwner
           token == Field(d, "access_token")
           jar == Unprotected(WriteTokenPair(cookies, d))
           out == processQueue("none", token)
           resumed == IF out = "resolve" THEN Queued ELSE {}
       IN  /\ cookies' = jar
           /\ failedQueue' = <<>>
           /\ handed' = [r \in Reqs |->
                           IF r \in resumed THEN token ELSE handed[r]]
           /\ phase' = [r \in Reqs |->
                           IF r = t \/ r \in resumed THEN "sent" ELSE phase[r]]
           /\ auth' = [r \in Reqs |->
                           IF r = t \/ r \in resumed
                           THEN AttachBearer(jar, TemplateStr(token))
                           ELSE auth[r]]
           /\ attempts' = [r \in Reqs |->
                           IF r = t \/ r \in resumed
                           THEN attempts[r] + 1 ELSE attempts[r]]
    /\ isRefreshing' = Finally(isRefreshing)
    /\ refreshInFlight' = refreshInFlight - 1
    /\ refreshOwner' = NoCall
    /\ refreshLog' = Append(refreshLog, [ok |-> TRUE, data |-> d, error |-> "none"])
    /\ UNCHANGED <<location, retry, err, got401, lateCall, refreshCalls,
                   refreshSent>>

\* The refresh fails with error e: the catch block (lines 143-152, 154)
RefreshFailure(e) ==
    /\ UNCHANGED <<mvars, gvars, httpJar>>
    /\ refreshInFlight > 0
    /\ LET t == refreshOwner
           out == processQueue(e, Undefined)
           rejected == IF out = "reject" THEN Queued ELSE {}
       IN  /\ failedQueue' = <<>>
           /\ phase' = [r \in Reqs |->
                           IF r = t \/ r \in rejected
                           THEN "failed" ELSE phase[r]]
           /\ err' = [r \in Reqs |->
                           IF r = t \/ r \in rejected THEN e ELSE err[r]]
    /\ cookies' = Unprotected(ClearTokens(cookies))
    /\ location' = "/login"
    /\ isRefreshing' = Finally(isRefreshing)
    /\ refreshInFlight' = refreshInFlight - 1
    /\ refreshOwner' = NoCall
    /\ refreshLog' = Append(refreshLog, [ok |-> FALSE, data |-> Empty, error |-> e])
    /\ UNCHANGED <<retry, auth, attempts, handed, got401, lateCall,
                   refreshCalls, refreshSent>>

SNext ==
    \/ \E r \in Reqs : Request(r)
    \/ \E r \in Reqs : RespondOk(r)
    \/ \E r \in Reqs : RespondError(r, FailureOf(r))
    \/ \E r \in Reqs : Respond401(r)
    \/ \E d \in AllRefreshData : RefreshSuccess(d)
    \/ \E e \in RefreshErrors : RefreshFailure(e)


\* The value null
Null == <<"#null">>

\* Utility functions (lines 163-181)
getAccessToken(jar) ==
    IF CookieFound(jar, "access_token") THEN SplitEq1(jar["access_token"])
    ELSE Null

getRefreshToken(jar) ==
    IF CookieFound(jar, "refresh_token") THEN SplitEq1(jar["refresh_token"])
    ELSE Null

isAuthenticated(jar) == getAccessToken(jar) # Null

\* logout() (lines 183-189)
logout ==
    /\ cookies' = Unprotected(ClearTokens(cookies))
    /\ location' = "/login"
    /\ UNCHANGED <<isRefreshing, failedQueue, httpJar, phase, retry, auth,
                   attempts, err, handed, got401, lateCall, refreshInFlight,
                   refreshCalls, refreshSent, refreshOwner, refreshLog>>
    /\ UNCHANGED <<mvars, gvars>>

----------------------------------------------------------------------------
(* Resource Mapper and the edit modal                                      *)
(*                                                                         *)
(* A JSON object is a function from the property names it has to their     *)
(* values; a property that is absent is not in the DOMAIN.  Bodies travel  *)
(* as JSON text (JSON.stringify / request.json()), which keeps every       *)
(* property of such an object.                                             *)

Has(o, k) == k \in DOMAIN o

\* { ...a, ...b }
Spread(a, b) ==
    [k \in DOMAIN a \cup DOMAIN b |-> IF k \in DOMAIN b THEN b[k] ELSE a[k]]

\* o.k?.[0] with a missing property, or an empty array, read as an object
\* without properties
First(o, k) == IF Has(o, k) /\ Len(o[k]) >= 1 THEN o[k][1] ELSE Empty

\* o.k || d for a string property
StrOr(o, k, d) == IF Has(o, k) /\ o[k] # "" THEN o[k] ELSE d

\* Variant: the fallback of an absent array is the empty array
ArrOrEmpty(o, k, d) == IF Has(o, k) THEN o[k] ELSE <<>>

\* o.k || d for an array property (an array, even empty, is truthy)
ArrOr(o, k, d) == IF Has(o, k) THEN o[k] ELSE d

\* o.k ?? d
Coalesce(o, k, d) == IF Has(o, k) THEN o[k] ELSE d

\* o.k?.[0] || d for an array of strings
FirstStrOr(o, k, d) ==
    IF Has(o, k) /\ Len(o[k]) >= 1 /\ o[k][1] # "" THEN o[k][1] ELSE d

EthnicityUrl == "http://hl7.org/fhir/us/core/StructureDefinition/us-core-ethnicity"

\* Variant: the first element whatever its url
FindFirst(seq, url) == IF Len(seq) >= 1 THEN seq[1] ELSE Empty

\* seq.find(x => x.url === url), as an object (without properties when
\* nothing is found)
FindByUrl(seq, url) ==
    LET hits == {i \in 1..Len(seq) : Has(seq[i], "url") /\ seq[i].url = url}
    IN  IF hits = {} THEN Empty
        ELSE seq[CHOOSE i \in hits : \A j \in hits : i <= j]

\* extension?.find(us-core-ethnicity)?.extension?.find('text')?.valueString
\*   || 'Unspecified'
Ethnicity(p) ==
    LET ext == FindByUrl(ArrOr(p, "extension", <<>>), EthnicityUrl)
        sub == FindByUrl(ArrOr(ext, "extension", <<>>), "text")
    IN  StrOr(sub, "valueString", "Unspecified")

\* The `formatted` object the GET /api/patients/[id] route builds
GetFormatted(p) ==
    [identifier |-> StrOr(First(p, "identifier"), "value", "N/A"),
     name |-> [family |-> StrOr(First(p, "name"), "family", "Unknown"),
               given |-> ArrOr(First(p, "name"), "given", <<"Unknown">>),
               full |-> <<FirstStrOr(First(p, "name"), "given", "Unknown"),
                          " ",
                          StrOr(First(p, "name"), "family", "Unknown")>>],
     gender |-> StrOr(p, "gender", "unknown"),
     birthDate |-> StrOr(p, "birthDate", "Unknown"),
     active |-> Coalesce(p, "active", FALSE),
     deceased |-> Coalesce(p, "deceasedBoolean", FALSE),
     maritalStatus |-> StrOr(Coalesce(p, "maritalStatus", Empty), "text", "Unknown"),
     lastUpdated |-> StrOr(Coalesce(p, "meta", Empty), "lastUpdated", "Unknown"),
     telecom |-> ArrOr(p, "telecom", <<>>),
     address |-> ArrOr(p, "address", <<>>),
     ethnicity |-> Ethnicity(p)]

\* Variant: a resource without `active` is shown as active
PutFormattedActive(p) ==
    [GetFormatted(p) EXCEPT !.active = Coalesce(p, "active", TRUE)]

\* The `formatted` object the PUT /api/patients/[id] route builds from the
\* remote API's answer
PutFormatted(p) ==
    [identifier |-> StrOr(First(p, "identifier"), "value", "N/A"),
     name |-> [family |-> StrOr(First(p, "name"), "family", "Unknown"),
               given |-> ArrOr(First(p, "name"), "given", <<"Unknown">>),
               full |-> <<FirstStrOr(First(p, "name"), "given", "Unknown"),
                          " ",
                          StrOr(First(p, "name"), "family", "Unknown")>>],
     gender |-> StrOr(p, "gender", "unknown"),
     birthDate |-> StrOr(p, "birthDate", "Unknown"),
     active |-> Coalesce(p, "active", FALSE),
     deceased |-> Coalesce(p, "deceasedBoolean", FALSE),
     maritalStatus |-> StrOr(Coalesce(p, "maritalStatus", Empty), "text", "Unknown"),
     lastUpdated |-> StrOr(Coalesce(p, "meta", Empty), "lastUpdated", "Unknown"),
     telecom |-> ArrOr(p, "telecom", <<>>),
     address |-> ArrOr(p, "address", <<>>),
     ethnicity |-> Ethnicity(p)]

\* transformedPatient of either route
Transformed(p, formatted) ==
    [id |-> p.id, resourceType |-> p.resourceType, raw |-> p,
     formatted |-> formatted]

\* setFormData in fetchPatientData and handleCancel
FormOf(f) ==
    [telecom |-> f.telecom,
     name |-> [family |-> f.name.family, given |-> f.name.given],
     gender |-> f.gender,
     birthDate |-> f.birthDate,
     active |-> f.active,
     maritalStatus |-> f.maritalStatus]

\* Variant: the marital status is rebuilt from the form alone
MaritalFromFormOnly(raw, fd) == [text |-> fd.maritalStatus]

\* handleSave: { ...patient.raw.maritalStatus, text: formData.maritalStatus }
MaritalMerged(raw, fd) ==
    Spread(Coalesce(raw, "maritalStatus", Empty), [text |-> fd.maritalStatus])

\* Variant: the document is rebuilt from the form and the identity alone
updatedPatientFromFormOnly(raw, fd) ==
    [resourceType |-> raw.resourceType,
     id |-> raw.id,
     telecom |-> fd.telecom,
     name |-> <<[family |-> fd.name.family, given |-> fd.name.given]>>,
     gender |-> fd.gender,
     birthDate |-> fd.birthDate,
     active |-> fd.active,
     maritalStatus |-> MaritalMerged(raw, fd)]

\* handleSave: the updated resource built from the raw one and the form
updatedPatient(raw, fd) ==
    Spread(raw,
           [telecom |-> fd.telecom,
            name |-> <<[family |-> fd.name.family, given |-> fd.name.given]>>,
            gender |-> fd.gender,
            birthDate |-> fd.birthDate,
            active |-> fd.active,
            maritalStatus |-> MaritalMerged(raw, fd)])

\* PUT route, up to the outbound call: the status it answers with before
\* calling the remote API, or 0 when the body is forwarded
PutRejects(id, accessToken, body) ==
    IF id = "" THEN 400
    ELSE IF accessToken = "" THEN 401
    ELSE IF ~Has(body, "resourceType") \/ ~Has(body, "id") THEN 400
    ELSE IF body.resourceType = "" \/ body.id = "" THEN 400
    ELSE IF body.id # id THEN 400
    ELSE 0

----------------------------------------------------------------------------
(* Inputs of the edit modal *)

BaseResource == [resourceType |-> "Patient", id |-> "42"]

\* The [id] segment of the path (a dynamic segment is never empty)
PathIds == {"42", "43"}

NameOptionFull == [name |-> <<[family |-> "Doe", given |-> <<"Jo">>]>>]

MaritalOptionFull ==
    [maritalStatus |-> [text |-> "Married", coding |-> <<[code |-> "M"]>>]]

\* The other fields the form covers
CoveredFields ==
    [gender |-> "female", birthDate |-> "1990-01-01", active |-> TRUE,
     telecom |-> <<[system |-> "phone", value |-> "555", use |-> "home"]>>]

\* Fields the form does not cover
UncoveredFields ==
    [address |-> <<[city |-> "Pune", line |-> <<"1 Main St">>]>>,
     identifier |-> <<[system |-> "mrn", value |-> "MRN1"]>>,
     extension |-> <<[url |-> EthnicityUrl,
                      extension |-> <<[url |-> "text",
                                       valueString |-> "Not Hispanic"]>>]>>,
     meta |-> [lastUpdated |-> "2025-09-14"],
     deceasedBoolean |-> TRUE]

\* A patient resource with name option n, marital option m and the other
\* fields u
Raw(n, m, u) == Spread(Spread(Spread(BaseResource, n), m), u)

\* Patient resources the remote API may hold: every option of the name and
\* of the marital status, each with and without the other fields
RawResources ==
    LET rest == Spread(CoveredFields, UncoveredFields)
        name2 == [name |-> <<[given |-> <<"Jo", "Al">>, use |-> "official"],
                             [family |-> "Old", use |-> "old"]>>]
        coded == [maritalStatus |-> [coding |-> <<[code |-> "S"]>>]]
    IN  { Raw(Empty, Empty, Empty),
          Raw(Empty, coded, rest),
          Raw(NameOptionFull, MaritalOptionFull, rest),
          Raw(NameOptionFull, Empty, Empty),
          Raw(name2, coded, Empty),
          Raw(name2, MaritalOptionFull, rest) }

\* What the user may type
FamilyInputs == {"", "Roe"}
GivenInputs == {"Al"}
GenderOptions == {"male", "unknown"}   \* two of the <select>'s four options
BirthDateInputs == {"", "2001-02-03"}
MaritalInputs == {"", "Single"}
TelecomFields == {"value", "rank"}   \* a field the entry has, one it lacks
TelecomInputs == {"777"}

\* Statuses the remote API may answer the modal's PUT with: accepted or
\* failed (handleSave reads response.ok only; the route's own 400 and 401
\* come from PutRejects)
RemoteStatuses == {200, 500}

----------------------------------------------------------------------------
(* The edit modal: fetchPatientData, the form handlers, handleSave *)

InitialFormData ==
    [telecom |-> <<>>,
     name |-> [family |-> "", given |-> <<"">>],
     gender |-> "",
     birthDate |-> "",
     active |-> TRUE,
     maritalStatus |-> ""]

\* The modal has just been opened for patient 42 with the View button of
\* its row: fetchPatientData has set loading and awaits GET /api/patients/42
MInit ==
    /\ modalOpen = TRUE
    /\ selectedPatientId = "42"
    /\ modalMode = "view"
    /\ fetching = <<[id |-> "42", answer |-> Empty]>>
    /\ patient = Empty
    /\ formData = InitialFormData
    /\ mode = modalMode
    /\ loading = TRUE
    /\ saving = FALSE
    /\ putInFlight = Empty
    /\ remoteDoc \in RawResources
    /\ gwToken \in {"", "tok"}
    /\ edits = 0
    /\ saves = 0

\* The resource the remote API holds for patient id: remoteDoc is the one
\* stored last, the others are bare
DocOf(id) ==
    IF remoteDoc.id = id THEN remoteDoc ELSE [BaseResource EXCEPT !.id = id]

\* GET /api/patients/[id] for the i-th run in flight: the route reads the
\* access_token cookie, the remote API answers with the resource it holds,
\* the route builds its response
FetchAnswered(i, remoteOk) ==
    /\ UNCHANGED <<svars, gvars, modalOpen, selectedPatientId, modalMode>>
    /\ i \in DOMAIN fetching
    /\ fetching[i].answer = Empty
    /\ LET doc == DocOf(fetching[i].id)
           answer == IF gwToken # "" /\ remoteOk
                     THEN [ok |-> TRUE,
                           data |-> Transformed(doc, GetFormatted(doc))]
                     ELSE [ok |-> FALSE]
       IN  fetching' = [fetching EXCEPT ![i].answer = answer]
    /\ UNCHANGED <<patient, formData, mode, loading, saving, putInFlight,
                   remoteDoc, gwToken, edits, saves>>

\* fetchPatientData after its await (lines 102-128): the page receives the
\* answer to the i-th run in flight
FetchDone(i) ==
    /\ UNCHANGED <<svars, gvars, modalOpen, selectedPatientId, modalMode>>
    /\ i \in DOMAIN fetching
    /\ fetching[i].answer # Empty
    /\ IF fetching[i].answer.ok
       THEN LET data == fetching[i].answer.data
            IN  /\ patient' = data
                /\ formData' = FormOf(data.formatted)
       ELSE UNCHANGED <<patient, formData>>
    /\ loading' = FALSE
    /\ fetching' = SubSeq(fetching, 1, i - 1)
                   \o SubSeq(fetching, i + 1, Len(fetching))
    /\ UNCHANGED <<mode, saving, putInFlight, remoteDoc, gwToken, edits,
                   saves>>

\* The form is shown for editing
Editable ==
    modalOpen /\ ~loading /\ patient # Empty /\ mode = "edit" /\ edits < MaxEdits

Edit(fd) ==
    /\ UNCHANGED <<svars, gvars, modalOpen, selectedPatientId, modalMode, fetching>>
    /\ Editable
    /\ formData' = fd
    /\ edits' = edits + 1
    /\ UNCHANGED <<patient, mode, loading, saving, putInFlight, remoteDoc,
                   gwToken, saves>>

\* "Edit Patient" button
StartEdit ==
    /\ UNCHANGED <<svars, gvars, modalOpen, selectedPatientId, modalMode, fetching>>
    /\ modalOpen /\ mode = "view" /\ patient # Empty
    /\ mode' = "edit"
    /\ UNCHANGED <<patient, formData, loading, saving, putInFlight,
                   remoteDoc, gwToken, edits, saves>>

ChangeFamily(v) ==
    Edit([formData EXCEPT !.name.family = v])

updateGivenName(index, v) ==
    /\ index \in 1..Len(formData.name.given)
    /\ Edit([formData EXCEPT !.name.given[index] = v])

addGivenName ==
    /\ Len(formData.name.given) < MaxGiven
    /\ Edit([formData EXCEPT !.name.given = Append(@, "")])

removeGivenName(index) ==
    /\ Len(formData.name.given) > 1
    /\ index \in 1..Len(formData.name.given)
    /\ Edit([formData EXCEPT !.name.given =
               SubSeq(@, 1, index - 1) \o SubSeq(@, index + 1, Len(@))])

ChangeGender(v) == Edit([formData EXCEPT !.gender = v])

ChangeBirthDate(v) == Edit([formData EXCEPT !.birthDate = v])

ChangeActive(b) == Edit([formData EXCEPT !.active = b])

ChangeMaritalStatus(v) == Edit([formData EXCEPT !.maritalStatus = v])

addTelecomEntry ==
    /\ Len(formData.telecom) < MaxTelecom
    /\ Edit([formData EXCEPT !.telecom =
               Append(@, [system |-> "phone", value |-> "", use |-> "home"])])

removeTelecomEntry(index) ==
    /\ index \in 1..Len(formData.telecom)
    /\ Edit([formData EXCEPT !.telecom =
               SubSeq(@, 1, index - 1) \o SubSeq(@, index + 1, Len(@))])

updateTelecomEntry(index, field, v) ==
    /\ index \in 1..Len(formData.telecom)
    /\ Edit([formData EXCEPT !.telecom[index] =
               Spread(@, [k \in {field} |-> v])])

handleCancel ==
    /\ UNCHANGED <<svars, gvars, modalOpen, selectedPatientId, modalMode, fetching>>
    /\ modalOpen /\ mode = "edit" /\ patient # Empty /\ ~saving
    /\ formData' = FormOf(patient.formatted)
    /\ mode' = "view"
    /\ UNCHANGED <<patient, loading, saving, putInFlight, remoteDoc, gwToken,
                   edits, saves>>

\* handleSave up to its await (lines 131-163), and the PUT route up to its
\* outbound call
SaveStart ==
    /\ UNCHANGED <<svars, gvars, modalOpen, selectedPatientId, modalMode, fetching>>
    /\ modalOpen /\ mode = "edit" /\ patient # Empty /\ ~saving
    /\ saves < MaxSaves
    /\ LET body == updatedPatient(patient.raw, formData)
           rej == PutRejects(patient.id, gwToken, body)
       IN  putInFlight' = [rejected |-> rej, body |-> body, answer |-> Empty]
    /\ saving' = TRUE
    /\ saves' = saves + 1
    /\ UNCHANGED <<patient, formData, mode, loading, remoteDoc, gwToken,
                   edits>>

\* PUT /api/patients/[id] after its outbound call: the remote API answers
\* with status st (on 2xx it has stored the document and answers with it,
\* or with a body the route cannot read as JSON, which the route answers
\* 400), the route builds its response; a route that made no call has
\* answered with its own status
SaveAnswered(st, readable) ==
    /\ UNCHANGED <<svars, gvars, modalOpen, selectedPatientId, modalMode, fetching>>
    /\ putInFlight # Empty
    /\ putInFlight.answer = Empty
    /\ IF putInFlight.rejected = 0 /\ st >= 200 /\ st <= 299
       THEN LET updated == putInFlight.body
            IN  /\ remoteDoc' = updated
                /\ putInFlight' =
                      [putInFlight EXCEPT !.answer =
                         IF readable
                         THEN [status |-> 200,
                               patient |-> Transformed(updated,
                                                       PutFormatted(updated))]
                         ELSE [status |-> 400]]
       ELSE /\ UNCHANGED remoteDoc
            /\ putInFlight' =
                  [putInFlight EXCEPT !.answer =
                     [status |-> IF putInFlight.rejected = 0 THEN st
                                 ELSE putInFlight.rejected]]
    /\ UNCHANGED <<patient, formData, mode, loading, saving, gwToken, edits,
                   saves>>

\* handleSave after its await (lines 165-187): the page receives the
\* route's answer
SaveDone ==
    /\ UNCHANGED <<svars, gvars, modalOpen, selectedPatientId, modalMode, fetching>>
    /\ saving
    /\ putInFlight.answer # Empty
    /\ IF putInFlight.answer.status >= 200 /\ putInFlight.answer.status <= 299
       THEN /\ patient' = putInFlight.answer.patient
            /\ mode' = "view"
       ELSE UNCHANGED <<patient, mode>>
    /\ saving' = FALSE
    /\ putInFlight' = Empty
    /\ UNCHANGED <<formData, loading, remoteDoc, gwToken, edits, saves>>

MNext ==
    \/ \E i \in 1..MaxFetches, ok \in BOOLEAN : FetchAnswered(i, ok)
    \/ \E i \in 1..MaxFetches : FetchDone(i)
    \/ StartEdit
    \/ \E v \in FamilyInputs : ChangeFamily(v)
    \/ \E i \in 1..MaxGiven, v \in GivenInputs : updateGivenName(i, v)
    \/ addGivenName
    \/ \E i \in 1..MaxGiven : removeGivenName(i)
    \/ \E v \in GenderOptions : ChangeGender(v)
    \/ \E v \in BirthDateInputs : ChangeBirthDate(v)
    \/ \E b \in BOOLEAN : ChangeActive(b)
    \/ \E v \in MaritalInputs : ChangeMaritalStatus(v)
    \/ addTelecomEntry
    \/ \E i \in 1..MaxTelecom : removeTelecomEntry(i)
    \/ \E i \in 1..MaxTelecom, f \in TelecomFields, v \in TelecomInputs :
          updateTelecomEntry(i, f, v)
    \/ handleCancel
    \/ SaveStart
    \/ \E st \in RemoteStatuses, readable \in BOOLEAN : SaveAnswered(st, readable)
    \/ SaveDone

----------------------------------------------------------------------------
(* The patients dashboard: the table opens and closes the modal, which     *)
(* stays mounted (it renders nothing while closed and keeps its state).    *)
(* The row buttons stay rendered and enabled under the open modal (the     *)
(* overlay takes the pointer, not the keyboard), so openModal may run      *)
(* while the modal is open.                                                *)

\* openModal (PatientsDashboard 211-215), the render it causes and the
\* modal's effects: setMode(initialMode) when initialMode or isOpen changed
\* (lines 84-86), fetchPatientData up to its await when isOpen or patientId
\* changed (lines 77-81)
openModal(patientId, m) ==
    /\ UNCHANGED <<svars, gvars>>
    /\ modalOpen' = TRUE
    /\ selectedPatientId' = patientId
    /\ modalMode' = m
    /\ mode' = IF ~modalOpen \/ m # modalMode THEN m ELSE mode
    /\ IF ~modalOpen \/ patientId # selectedPatientId
       THEN /\ Len(fetching) < MaxFetches
            /\ loading' = TRUE
            /\ fetching' = Append(fetching, [id |-> patientId, answer |-> Empty])
       ELSE UNCHANGED <<loading, fetching>>
    /\ UNCHANGED <<patient, formData, saving, putInFlight, remoteDoc,
                   gwToken, edits, saves>>

\* closeModal (PatientsDashboard 217-221) and the modal's effect
\* setMode('view')
closeModal ==
    /\ UNCHANGED <<svars, gvars>>
    /\ modalOpen
    /\ modalOpen' = FALSE
    /\ selectedPatientId' = ""
    /\ modalMode' = "view"
    /\ mode' = "view"
    /\ UNCHANGED <<fetching, patient, formData, loading, saving,
                   putInFlight, remoteDoc, gwToken, edits, saves>>

\* The dashboard is shown, the modal closed; the session is valid
DInit ==
    /\ modalOpen = FALSE
    /\ selectedPatientId = ""
    /\ modalMode = "view"
    /\ fetching = <<>>
    /\ patient = Empty
    /\ formData = InitialFormData
    /\ mode = "view"
    /\ loading = FALSE
    /\ saving = FALSE
    /\ putInFlight = Empty
    /\ remoteDoc = Spread(BaseResource, NameOptionFull)
    /\ gwToken = "tok"
    /\ edits = 0
    /\ saves = 0

DNext ==
    \/ \E id \in PathIds, m \in {"view", "edit"} : openModal(id, m)
    \/ closeModal
    \/ \E i \in 1..MaxFetches, ok \in BOOLEAN : FetchAnswered(i, ok)
    \/ \E i \in 1..MaxFetches : FetchDone(i)
    \/ StartEdit
    \/ \E v \in FamilyInputs : ChangeFamily(v)
    \/ handleCancel
    \/ SaveStart
    \/ \E st \in RemoteStatuses, readable \in BOOLEAN : SaveAnswered(st, readable)
    \/ SaveDone

----------------------------------------------------------------------------
(* Server routes: the Resource Gateway (patient list, get, update) and the *)
(* Auth Gateway (login).  A route runs to its outbound call, awaits the    *)
(* remote API, and then builds its response.  Response bodies are what     *)
(* NextResponse.json sends: JSON.stringify leaves out a property whose     *)
(* value is undefined.  A message built from a template literal is the     *)
(* sequence of its parts.                                                  *)

\* Variant: a request without the cookie is treated as an anonymous session
CookieValueOrAnonymous(jar, name) ==
    IF Has(jar, name) THEN jar[name] ELSE "anonymous"

\* cookieStore.get(name)?.value, '' when there is no such cookie (both are
\* falsy)
CookieValue(jar, name) == IF Has(jar, name) THEN jar[name] ELSE ""

\* response.ok
Ok(status) == status >= 200 /\ status <= 299

\* The fetch call of a patient route
FetchCall(method, path, accessToken, body) ==
    [method |-> method, path |-> path,
     authorization |-> <<"Bearer ", accessToken>>, body |-> body]

\* Variant: an Unauthorized answer also expires the session cookies
JsonExpiringSession(status, body) ==
    [status |-> status, body |-> body,
     cookies |-> IF status = 401
                 THEN [i \in 1..2 |->
                         [name |-> <<"access_token", "refresh_token">>[i],
                          value |-> "", httpOnly |-> TRUE, secure |-> TRUE,
                          sameSite |-> "strict", maxAge |-> 0]]
                 ELSE <<>>]

\* A route's response
Json(status, body) == [status |-> status, body |-> body, cookies |-> <<>>]

\* The catch block of the patient routes for an Error that is neither a
\* ZodError nor (in PUT) a SyntaxError
InternalError(e) ==
    Json(500, [error |-> <<"Internal server error">>, message |-> e.message])

\* Variant: the first link whatever its relation
FindAnyLink(data, rel) == First(data, "link")

\* data.link?.find(link => link.relation === rel), as an object
FindByRelation(data, rel) ==
    LET seq == ArrOr(data, "link", <<>>)
        hits == {i \in 1..Len(seq) :
                   Has(seq[i], "relation") /\ seq[i].relation = rel}
    IN  IF hits = {} THEN Empty
        ELSE seq[CHOOSE i \in hits : \A j \in hits : i <= j]

\* { k: o?.url } as JSON: no property when the url is undefined
UrlAs(k, o) == IF Has(o, "url") THEN [x \in {k} |-> o.url] ELSE Empty

\* parseInt(page, 10) of a one-digit page number
Digits == <<"1", "2", "3", "4", "5", "6", "7", "8", "9">>
ParseInt(s) == CHOOSE n \in DOMAIN Digits : Digits[n] = s

\* One element of transformedData.patients
ListItem(entry) ==
    LET p == entry.resource
        item == [id |-> Coalesce(p, "id", "N/A"),
                 identifier |-> StrOr(First(p, "identifier"), "value", "N/A"),
                 name |-> [family |-> StrOr(First(p, "name"), "family", "Unknown"),
                           given |-> ArrOr(First(p, "name"), "given", <<"Unknown">>),
                           full |-> <<FirstStrOr(First(p, "name"), "given", "Unknown"),
                                      " ",
                                      StrOr(First(p, "name"), "family", "Unknown")>>],
                 gender |-> StrOr(p, "gender", "unknown"),
                 birthDate |-> StrOr(p, "birthDate", "Unknown"),
                 active |-> Coalesce(p, "active", FALSE),
                 maritalStatus |-> StrOr(Coalesce(p, "maritalStatus", Empty),
                                         "text", "Unknown"),
                 lastUpdated |-> StrOr(Coalesce(p, "meta", Empty),
                                       "lastUpdated", "Unknown")]
    IN  IF Has(entry, "fullUrl") THEN Spread(item, [fullUrl |-> entry.fullUrl])
        ELSE item

\* transformedData of the patient list route
transformedData(data, page) ==
    LET entries == ArrOr(data, "entry", <<>>)
    IN  [total |-> IF Has(data, "total") /\ data.total # 0 THEN data.total ELSE 0,
         patients |-> [i \in 1..Len(entries) |-> ListItem(entries[i])],
         links |-> Spread(Spread(UrlAs("self", FindByRelation(data, "self")),
                                 UrlAs("next", FindByRelation(data, "next"))),
                          UrlAs("prev", FindByRelation(data, "prev"))),
         pagination |-> [currentPage |-> ParseInt(page),
                         hasNext |-> FindByRelation(data, "next") # Empty,
                         hasPrev |-> FindByRelation(data, "prev") # Empty]]

(* Inputs of the server routes *)

\* Cookies a request may carry: none, an access token, an empty one
ServerJars == {Empty, [access_token |-> "tok"], [access_token |-> ""]}

\* Query strings of the list request
Queries == {Empty, [page |-> "2"], [page |-> "2", count |-> "50"]}

\* Non-2xx statuses of the remote API, with their status texts
RemoteErrorStatuses == {400, 401, 403, 404, 500}
StatusText(s) ==
    CASE s = 200 -> "OK"
      [] s = 400 -> "Bad Request"
      [] s = 401 -> "Unauthorized"
      [] s = 403 -> "Forbidden"
      [] s = 404 -> "Not Found"
      [] OTHER   -> "Internal Server Error"

\* Error bodies of the remote API
ErrorTexts == {"invalid_grant", "account locked"}

\* fetch or axios rejects without a response
NetworkErrors ==
    { [kind |-> "error", name |-> "TypeError", message |-> "fetch failed"],
      [kind |-> "error", name |-> "TypeError", message |-> "socket hang up"] }

\* The remote API answers 2xx with a body that is not JSON (an empty
\* body): the route's `await response.json()` rejects
BodyReadErrors ==
    { [kind |-> "error", name |-> "SyntaxError",
       message |-> "Unexpected end of JSON input"] }

RemoteErrors ==
    { [kind |-> "response", status |-> s, statusText |-> StatusText(s),
       body |-> [text |-> t]] : s \in RemoteErrorStatuses, t \in ErrorTexts }

RemoteOk(bodies) ==
    { [kind |-> "response", status |-> 200, statusText |-> "OK", body |-> b] :
        b \in bodies }

\* extension arrays a patient resource may carry
EthnicityOptions ==
    { Empty,
      [extension |-> <<>>],
      [extension |-> <<[url |-> EthnicityUrl]>>],
      [extension |-> <<[url |-> EthnicityUrl,
                        extension |-> <<[url |-> "text"]>>]>>],
      [extension |-> <<[url |-> EthnicityUrl,
                        extension |-> <<[url |-> "text", valueString |-> ""]>>]>>],
      [extension |-> <<[url |-> "race",
                        extension |-> <<[url |-> "text", valueString |-> "White"]>>],
                       [url |-> EthnicityUrl,
                        extension |-> <<[url |-> "ombCategory", valueString |-> "2186-5"],
                                        [url |-> "text", valueString |-> "Not Hispanic"]>>]>>],
      [extension |-> <<[url |-> EthnicityUrl, extension |-> <<>>],
                       [url |-> EthnicityUrl,
                        extension |-> <<[url |-> "text", valueString |-> "Hispanic"]>>]>>],
      [extension |-> <<[url |-> EthnicityUrl,
                        extension |-> <<[url |-> "text", valueString |-> ""],
                                        [url |-> "text", valueString |-> "Hispanic"]>>]>>] }

\* Patient resources the remote API may answer get and update with
GatewayResources ==
    { Spread(BaseResource, e) : e \in EthnicityOptions }
    \cup { Spread(Spread(Spread(BaseResource, NameOptionFull), MaritalOptionFull),
                  Spread(CoveredFields, UncoveredFields)),
           Spread(BaseResource,
                  [name |-> <<[given |-> <<"Jo", "Al">>, use |-> "official"]>>,
                   gender |-> "", active |-> TRUE,
                   maritalStatus |-> [coding |-> <<[code |-> "S"]>>],
                   meta |-> [versionId |-> "3"]]) }

\* Bundles the remote API may answer the list request with
TotalOptions == {Empty, [total |-> 0], [total |-> 7]}

EntryOptions ==
    { Empty,
      [entry |-> <<>>],
      [entry |-> <<[resource |-> Empty]>>],
      [entry |-> <<[fullUrl |-> "Patient/42",
                    resource |-> Spread(Spread(BaseResource, NameOptionFull),
                                        Spread(MaritalOptionFull, CoveredFields))],
                   [resource |-> [id |-> "43", gender |-> ""]]>>] }

Link(rel) == [relation |-> rel, url |-> rel]

LinkOptions ==
    { Empty,
      [link |-> <<>>],
      [link |-> <<Link("self")>>],
      [link |-> <<Link("self"), Link("next")>>],
      [link |-> <<Link("next")>>],
      [link |-> <<Link("self"), Link("prev")>>],
      [link |-> <<Link("first"), Link("prev"), Link("self"), Link("next")>>],
      [link |-> <<[relation |-> "next"]>>] }

Bundles ==
    { Spread(Spread(t, e), l) :
        t \in TotalOptions, e \in EntryOptions, l \in LinkOptions }

\* Bodies of an update request: text that is not JSON (an empty body, an
\* unquoted property name), the JSON values null and 5, and JSON objects
PutBodies ==
    { [json |-> "invalid", value |-> Empty, text |-> t] :
        t \in {"", "{not json"} }
    \cup
    { [json |-> "null", value |-> Empty],
      [json |-> "number", value |-> Empty] }
    \cup { [json |-> "object", value |-> o] :
             o \in { Empty,
                     [k \in {"resourceType"} |-> "Patient"],
                     [k \in {"id"} |-> "42"],
                     [resourceType |-> "", id |-> "42"],
                     BaseResource,
                     Spread(BaseResource, UncoveredFields) } }

\* Form fields of a login request.  A field's text is the sequence of its
\* symbols: a run of letters and digits, or one character that a form body
\* has to escape
LoginForms ==
    { Spread(u, pw) :
        u \in {Empty} \cup { [k \in {"username"} |-> v] :
                               v \in {<<>>, <<"alice">>,
                                      <<"al", "@", "b", " ", "&", "c">>} },
        pw \in {Empty} \cup { [k \in {"password"} |-> v] :
                                v \in {<<>>, <<"pw1">>, <<"pw2">>,
                                       <<"p", "=", "%", "1">>} } }

\* Login requests whose body is not a form: a JSON body, no body
NotForms == { [contentType |-> "application/json"], [contentType |-> ""] }

\* Token responses of the remote grant endpoint
GrantData ==
    { [access_token |-> "A1", refresh_token |-> "R1", token_type |-> "Bearer"],
      [access_token |-> "A2", refresh_token |-> "R2", token_type |-> "Bearer"] }

\* Deployments
NodeEnvs == {"production", "development", "test"}

(* The routes *)

\* A route takes a request
Take(r, in) ==
    /\ routePhase # "calling"
    /\ served < MaxServed
    /\ route' = r
    /\ routeIn' = in
    /\ served' = served + 1
    /\ remote' = Empty
    /\ UNCHANGED <<nodeEnv, svars, mvars>>

\* The route answers without calling the remote API
AnswerNow(res, log) ==
    /\ routePhase' = "answered"
    /\ response' = res
    /\ serverLog' = log
    /\ outbound' = <<>>

\* The route issues its outbound call and awaits the answer
CallRemote(call) ==
    /\ routePhase' = "calling"
    /\ response' = Empty
    /\ serverLog' = <<>>
    /\ outbound' = <<call>>

\* The remote API's answer a arrives and the route answers
AnswerAfter(r, a, res, log) ==
    /\ route = r
    /\ routePhase = "calling"
    /\ remote' = a
    /\ routePhase' = "answered"
    /\ response' = res
    /\ serverLog' = log
    /\ UNCHANGED <<route, routeIn, outbound, nodeEnv, served, svars, mvars>>

NoToken401 == Json(401, [error |-> <<"Unauthorized - No access token found">>])

Expired401 == Json(401, [error |-> <<"Unauthorized - Token may be expired">>])

\* Variant: a remote 404 is reported as a server failure
NotFoundAsFailure == Json(500, [error |-> <<"Patient not found">>])

NotFound404 == Json(404, [error |-> <<"Patient not found">>])

\* console.error('ModMed API error:', response.status, response.statusText)
StatusLog(label, a) ==
    <<[label |-> label, status |-> a.status, statusText |-> a.statusText]>>

\* console.error(label, error)
ErrorLog(label, e) == <<[label |-> label, error |-> e]>>

\* new URLSearchParams(): page unless '1', _count unless '20'
ListParams(page, count) ==
    Spread(IF page # "1" THEN [k \in {"page"} |-> page] ELSE Empty,
           IF count # "20" THEN [k \in {"_count"} |-> count] ELSE Empty)

\* GET /api/patients up to its fetch
PatientsGET(in) ==
    /\ Take("list", in)
    /\ LET page == StrOr(in.query, "page", "1")
           count == StrOr(in.query, "count", "20")
           accessToken == CookieValue(in.cookies, "access_token")
       IN  IF accessToken = ""
           THEN AnswerNow(NoToken401, <<>>)
           ELSE CallRemote(FetchCall("GET",
                                     [resource |-> "Patient", id |-> "",
                                      params |-> ListParams(page, count)],
                                     accessToken, Empty))

\* What a patient route writes to the log for the remote API's answer a
AnswerLog(label, statusLabel, a) ==
    IF a.kind = "error" THEN ErrorLog(label, a)
    ELSE IF ~Ok(a.status) THEN StatusLog(statusLabel, a)
    ELSE <<>>

\* The response of GET /api/patients?page=... to the remote API's answer a
PatientsGETResponse(a, page) ==
    IF a.kind = "error" THEN InternalError(a)
    ELSE IF ~Ok(a.status)
    THEN IF a.status = 401 THEN Expired401
         ELSE Json(a.status,
                   [error |-> <<"Failed to fetch patients: ", a.statusText>>])
    ELSE Json(200, transformedData(a.body, page))

\* GET /api/patients after its fetch
PatientsGETDone(a) ==
    LET page == StrOr(routeIn.query, "page", "1")
    IN  /\ route = "list"
        /\ AnswerAfter("list", a, PatientsGETResponse(a, page),
                       AnswerLog("Patients API error:", "ModMed API error:", a))

\* GET /api/patients/[id] up to its fetch
PatientGET(in) ==
    /\ Take("get", in)
    /\ LET accessToken == CookieValue(in.cookies, "access_token")
       IN  IF in.id = ""
           THEN AnswerNow(Json(400, [error |-> <<"Patient ID is required">>]), <<>>)
           ELSE IF accessToken = ""
           THEN AnswerNow(NoToken401, <<>>)
           ELSE CallRemote(FetchCall("GET",
                                     [resource |-> "Patient", id |-> in.id,
                                      params |-> Empty],
                                     accessToken, Empty))

\* The response of GET /api/patients/[id] to the remote API's answer a
PatientGETResponse(a) ==
    IF a.kind = "error" THEN InternalError(a)
    ELSE IF ~Ok(a.status)
    THEN IF a.status = 401 THEN Expired401
         ELSE IF a.status = 404 THEN NotFound404
         ELSE Json(a.status,
                   [error |-> <<"Failed to fetch patient: ", a.statusText>>])
    ELSE Json(200, Transformed(a.body, GetFormatted(a.body)))

\* GET /api/patients/[id] after its fetch
PatientGETDone(a) ==
    /\ route = "get"
    /\ AnswerAfter("get", a, PatientGETResponse(a),
                   AnswerLog("Patient API GET error:", "ModMed API error:", a))

\* The Node.js major versions a deployment may run on
NodeVersions == {18, 20, 22}

\* The message of the SyntaxError JSON.parse throws for a request text
\* that is not JSON: the wording is the runtime's
ParseErrorMessage(text, node) ==
    CASE text = "" -> "Unexpected end of JSON input"
      [] text = "{not json" /\ node = 18 ->
           "Unexpected token n in JSON at position 1"
      [] text = "{not json" /\ node = 20 ->
           "Expected property name or '}' in JSON at position 1"
      [] text = "{not json" /\ node = 22 ->
           "Expected property name or '}' in JSON at position 1 (line 1 column 2)"

\* What request.json() and the reads of body.resourceType and body.id throw
\* on runtime node
BodyError(body, node) ==
    IF body.json = "invalid"
    THEN [kind |-> "error", name |-> "SyntaxError",
          message |-> ParseErrorMessage(body.text, node)]
    ELSE [kind |-> "error", name |-> "TypeError",
          message |-> "Cannot read properties of null (reading 'resourceType')"]

\* PUT /api/patients/[id] up to its fetch, on any of the runtimes
PatientPUT(in) ==
    /\ Take("update", in)
    /\ \E node \in NodeVersions :
       LET accessToken == CookieValue(in.cookies, "access_token")
           body == in.body
           e == BodyError(body, node)
       IN  IF in.id = ""
           THEN AnswerNow(Json(400, [error |-> <<"Patient ID is required">>]), <<>>)
           ELSE IF accessToken = ""
           THEN AnswerNow(NoToken401, <<>>)
           ELSE IF body.json = "invalid"
           THEN AnswerNow(Json(400, [error |-> <<"Invalid JSON in request body">>]),
                          ErrorLog("Patient API PUT error:", e))
           ELSE IF body.json = "null"
           THEN AnswerNow(InternalError(e), ErrorLog("Patient API PUT error:", e))
           ELSE IF StrOr(body.value, "resourceType", "") = ""
                   \/ StrOr(body.value, "id", "") = ""
           THEN AnswerNow(Json(400, [error |-> <<"Invalid patient data - resourceType and id are required">>]),
                          <<>>)
           ELSE IF body.value.id # in.id
           THEN AnswerNow(Json(400, [error |-> <<"Patient ID in URL does not match ID in request body">>]),
                          <<>>)
           ELSE CallRemote(FetchCall("PUT",
                                     [resource |-> "Patient", id |-> in.id,
                                      params |-> Empty],
                                     accessToken, body.value))

\* The response of PUT /api/patients/[id] to the remote API's answer a
PatientPUTResponse(a) ==
    IF a.kind = "error"
    THEN IF a.name = "SyntaxError"
         THEN Json(400, [error |-> <<"Invalid JSON in request body">>])
         ELSE InternalError(a)
    ELSE IF ~Ok(a.status)
    THEN IF a.status = 401 THEN Expired401
         ELSE IF a.status = 404 THEN NotFound404
         ELSE IF a.status = 400
         THEN Json(400, [error |-> <<"Bad request - Invalid patient data">>,
                         details |-> a.body.text])
         ELSE Json(a.status,
                   [error |-> <<"Failed to update patient: ", a.statusText>>])
    ELSE Json(200, [message |-> "Patient updated successfully",
                    patient |-> Transformed(a.body, PutFormatted(a.body))])

\* PUT /api/patients/[id] after its fetch
PatientPUTDone(a) ==
    /\ route = "update"
    /\ AnswerAfter("update", a, PatientPUTResponse(a),
                   AnswerLog("Patient API PUT error:", "ModMed API PUT error:", a))

\* loginSchema.safeParse: the issues of one field (null when the form has
\* no such field)
FieldIssues(form, k, required) ==
    IF ~Has(form, k) THEN <<[code |-> "invalid_type", path |-> <<k>>]>>
    ELSE IF Len(form[k]) < 1 THEN <<[code |-> "too_small", path |-> <<k>>,
                                 message |-> required]>>
    ELSE <<>>

loginSchema(form) ==
    FieldIssues(form, "username", "Username is required")
    \o FieldIssues(form, "password", "Password is required")

\* The ASCII characters that URLSearchParams percent-encodes
\* (application/x-www-form-urlencoded: every character but letters, digits
\* and * - . _), each with its code: the printable ones, then the control
\* characters (tab, line feed, form feed and carriage return as escapes,
\* U+0001 to U+001F and U+007F otherwise as the character itself).  The
\* backquote (%60) and U+0000 (%00) are not written here, a string of this
\* module cannot hold them
PercentCodes ==
    << <<"!", "%21">>, <<"\"", "%22">>, <<"#", "%23">>, <<"$", "%24">>,
       <<"%", "%25">>, <<"&", "%26">>, <<"'", "%27">>, <<"(", "%28">>,
       <<")", "%29">>, <<"+", "%2B">>, <<",", "%2C">>, <<"/", "%2F">>,
       <<":", "%3A">>, <<";", "%3B">>, <<"<", "%3C">>, <<"=", "%3D">>,
       <<">", "%3E">>, <<"?", "%3F">>, <<"@", "%40">>, <<"[", "%5B">>,
       <<"\\", "%5C">>, <<"]", "%5D">>, <<"^", "%5E">>, <<"{", "%7B">>,
       <<"|", "%7C">>, <<"}", "%7D">>, <<"~", "%7E">>,
       <<"", "%01">>, <<"", "%02">>, <<"", "%03">>, <<"", "%04">>,
       <<"", "%05">>, <<"", "%06">>, <<"", "%07">>, <<"", "%08">>,
       <<"\t", "%09">>, <<"\n", "%0A">>, <<"", "%0B">>, <<"\f", "%0C">>,
       <<"\r", "%0D">>, <<"", "%0E">>, <<"", "%0F">>, <<"", "%10">>,
       <<"", "%11">>, <<"", "%12">>, <<"", "%13">>, <<"", "%14">>,
       <<"", "%15">>, <<"", "%16">>, <<"", "%17">>, <<"", "%18">>,
       <<"", "%19">>, <<"", "%1A">>, <<"", "%1B">>, <<"", "%1C">>,
       <<"", "%1D">>, <<"", "%1E">>, <<"", "%1F">>, <<"", "%7F">> >>

\* URLSearchParams' serialisation of one symbol of an ASCII value: a space
\* becomes "+", an escaped character its percent code, a run of letters
\* and digits and the characters * - . _ stay
FormEncodeSymbol(c) ==
    IF c = " " THEN "+"
    ELSE IF \E i \in DOMAIN PercentCodes : PercentCodes[i][1] = c
    THEN PercentCodes[CHOOSE i \in DOMAIN PercentCodes : PercentCodes[i][1] = c][2]
    ELSE c

FormEncode(v) == [i \in 1..Len(v) |-> FormEncodeSymbol(v[i])]

\* new URLSearchParams({grant_type, username, password}) as axios sends it
GrantBody(form) ==
    <<"grant_type=", "password", "&username=">> \o FormEncode(form.username)
    \o <<"&password=">> \o FormEncode(form.password)

\* res.cookies.set(name, value, {httpOnly, secure, sameSite, maxAge})
SetCookie(name, value, maxAge) ==
    [name |-> name, value |-> value, httpOnly |-> TRUE,
     secure |-> (nodeEnv = "production"), sameSite |-> "strict",
     maxAge |-> maxAge]

\* The AxiosError of a failed grant call: it carries the request
\* configuration, body included
GrantErrorOf(body, a) ==
    [name |-> "AxiosError", message |-> a.message,
     config |-> [url |-> "ema/ws/oauth2/grant", method |-> "post",
                 data |-> body],
     response |-> IF a.kind = "response"
                  THEN [status |-> a.status, data |-> a.body.text]
                  ELSE Empty]

GrantError(a) == GrantErrorOf(outbound[1].body, a)

\* The TypeError request.formData() rejects with when the body is not a
\* form: the wording is the runtime's (undici 5, undici 6)
FormDataErrors ==
    { [kind |-> "error", name |-> "TypeError",
       message |-> "Request.formData: Could not parse content as FormData."],
      [kind |-> "error", name |-> "TypeError",
       message |-> "Content-Type was not one of \"multipart/form-data\" or \"application/x-www-form-urlencoded\"."] }

\* POST /api/auth/login up to its axios.post: `in` carries the form of the
\* request, or the content type of a body that is not a form
LoginPOST(in) ==
    /\ Take("login", in)
    /\ IF ~Has(in, "form")
       THEN \E e \in FormDataErrors :
               AnswerNow(Json(500, [error |-> <<"Login failed: ", e.message>>]),
                         ErrorLog("Login error:", e))
       ELSE LET issues == loginSchema(in.form)
            IN  IF issues # <<>>
                THEN AnswerNow(Json(400, [error |-> <<"Invalid input data">>,
                                          details |-> issues]), <<>>)
                ELSE CallRemote([method |-> "POST",
                                 path |-> [resource |-> "oauth2/grant", id |-> "",
                                           params |-> Empty],
                                 authorization |-> <<>>,
                                 body |-> GrantBody(in.form)])

\* POST /api/auth/login after its axios.post
LoginPOSTDone(a) ==
    IF a.kind = "response" /\ Ok(a.status)
    THEN AnswerAfter("login", a,
                     [status |-> 200, body |-> a.body,
                      cookies |-> <<SetCookie("access_token", a.body.access_token, 3600),
                                    SetCookie("refresh_token", a.body.refresh_token,
                                              86400 * 7)>>],
                     <<>>)
    ELSE AnswerAfter("login", a,
                     IF a.kind = "response"
                     THEN Json(a.status, [error |-> <<a.body.text>>])
                     ELSE Json(500, [error |-> <<"Unknown login error">>]),
                     ErrorLog("Login error:", GrantError(a)))

\* Answers of the remote grant endpoint as axios delivers them
GrantAnswers ==
    RemoteOk(GrantData)
    \cup { [kind |-> "response", status |-> s, statusText |-> StatusText(s),
            message |-> "Request failed", body |-> [text |-> t]] :
             s \in RemoteErrorStatuses, t \in ErrorTexts }
    \cup { [kind |-> "error", name |-> "AxiosError", message |-> "Network Error"] }

GInit ==
    /\ route = "none"
    /\ routeIn = Empty
    /\ routePhase = "idle"
    /\ outbound = <<>>
    /\ remote = Empty
    /\ response = Empty
    /\ serverLog = <<>>
    /\ nodeEnv \in NodeEnvs
    /\ served = 0
    /\ arriving = {}

\* The routes called by a client other than the browser tab
GNext ==
    \/ \E c \in ServerJars, q \in Queries :
          PatientsGET([cookies |-> c, query |-> q]) /\ UNCHANGED arriving
    \/ \E a \in RemoteOk(Bundles) \cup RemoteErrors \cup NetworkErrors
                 \cup BodyReadErrors :
          PatientsGETDone(a) /\ UNCHANGED arriving
    \/ \E c \in ServerJars, id \in PathIds :
          PatientGET([cookies |-> c, id |-> id]) /\ UNCHANGED arriving
    \/ \E a \in RemoteOk(GatewayResources) \cup RemoteErrors \cup NetworkErrors
                 \cup BodyReadErrors :
          PatientGETDone(a) /\ UNCHANGED arriving
    \/ \E c \in ServerJars, id \in PathIds, b \in PutBodies :
          PatientPUT([cookies |-> c, id |-> id, body |-> b])
          /\ UNCHANGED arriving
    \/ \E a \in RemoteOk(GatewayResources) \cup RemoteErrors \cup NetworkErrors
                 \cup BodyReadErrors :
          PatientPUTDone(a) /\ UNCHANGED arriving
    \/ \E in \in {[form |-> f] : f \in LoginForms} \cup NotForms :
          LoginPOST(in) /\ UNCHANGED arriving
    \/ \E a \in GrantAnswers : LoginPOSTDone(a) /\ UNCHANGED arriving

\* No server route is running
GIdle ==
    /\ route = "none"
    /\ routeIn = Empty
    /\ routePhase = "idle"
    /\ outbound = <<>>
    /\ remote = Empty
    /\ response = Empty
    /\ serverLog = <<>>
    /\ nodeEnv = "production"
    /\ served = 0
    /\ arriving = {}

\* The modal is not mounted
MIdle ==
    /\ modalOpen = FALSE
    /\ selectedPatientId = ""
    /\ modalMode = "view"
    /\ fetching = <<>>
    /\ patient = Empty
    /\ formData = InitialFormData
    /\ mode = "view"
    /\ loading = FALSE
    /\ saving = FALSE
    /\ putInFlight = Empty
    /\ remoteDoc = BaseResource
    /\ gwToken = ""
    /\ edits = 0
    /\ saves = 0

\* No Session Client call is made
SIdle ==
    /\ isRefreshing = FALSE
    /\ failedQueue = <<>>
    /\ cookies = Empty
    /\ httpJar = Empty
    /\ location = "/app"
    /\ phase = [r \in Reqs |-> "new"]
    /\ retry = [r \in Reqs |-> FALSE]
    /\ auth = [r \in Reqs |-> NoHeader]
    /\ attempts = [r \in Reqs |-> 0]
    /\ err = [r \in Reqs |-> "none"]
    /\ handed = [r \in Reqs |-> NoToken]
    /\ got401 = [r \in Reqs |-> 0]
    /\ lateCall = FALSE
    /\ refreshInFlight = 0
    /\ refreshCalls = 0
    /\ refreshSent = <<>>
    /\ refreshOwner = NoCall
    /\ refreshLog = <<>>

Init == SInit /\ MIdle /\ GIdle

\* The Session Client
Spec == Init /\ [][SNext]_vars

ModalInit == MInit /\ SIdle /\ GIdle

\* The edit modal over the server routes
ModalSpec == ModalInit /\ [][MNext]_vars

GatewayInit == GInit /\ SIdle /\ MIdle

\* The server routes
GatewaySpec == GatewayInit /\ [][GNext]_vars

DashboardInit == DInit /\ SIdle /\ GIdle

\* The patients dashboard and its modal
DashboardSpec == DashboardInit /\ [][DNext]_vars

----------------------------------------------------------------------------
(* The browser tab over the server routes: the Session Client and logout,  *)
(* the login page's and the patient pages' fetch calls to the routes, and  *)
(* the browser's cookie store, which keeps what the routes' responses set. *)

\* The cookies a response sets, as the sequence of its Set-Cookie headers
SetCookies(res) == {res.cookies[i] : i \in 1..Len(res.cookies)}

\* The jar of HttpOnly cookies (http = TRUE) or of the cookies scripts can
\* read (http = FALSE) once the browser has taken the Set-Cookie headers of
\* res: a cookie set replaces the one of that name, whichever jar held it
Stored(jar, res, http) ==
    LET set == {c.name : c \in SetCookies(res)}
        kept == {c.name : c \in {c \in SetCookies(res) :
                                    c.maxAge > 0 /\ c.httpOnly = http}}
    IN  [k \in (DOMAIN jar \ set) \cup kept |->
            IF k \in kept
            THEN <<(CHOOSE c \in SetCookies(res) : c.name = k).value>>
            ELSE jar[k]]

\* A request of the tab is handled by its route in this step: the response
\* the route gives, if it gives one, is on its way to the tab, whatever
\* the tab sends next.  A response without Set-Cookie headers changes
\* nothing in the tab when it arrives and is not kept
ToTab ==
    arriving' = IF routePhase' = "answered" /\ response'.cookies # <<>>
                THEN arriving \cup {[route |-> route',
                                     status |-> response'.status,
                                     cookies |-> response'.cookies]}
                ELSE arriving

\* await fetch(...) resolves in the page (Login.tsx handleSubmit, the
\* patient pages) with the response e, in any order of the responses on
\* their way: the browser has taken its Set-Cookie headers
Receive(e) ==
    /\ e \in arriving
    /\ arriving' = arriving \ {e}
    /\ httpJar' = Stored(httpJar, e, TRUE)
    /\ cookies' = Stored(cookies, e, FALSE)
    /\ UNCHANGED <<isRefreshing, failedQueue, location, phase, retry, auth,
                   attempts, err, handed, got401, lateCall, refreshInFlight,
                   refreshCalls, refreshSent, refreshOwner, refreshLog>>
    /\ UNCHANGED <<route, routeIn, routePhase, outbound, remote, response,
                   serverLog, nodeEnv, served, mvars>>

\* The text of a sequence of symbols
RECURSIVE Join(_)
Join(v) == IF v = <<>> THEN "" ELSE Head(v) \o Join(Tail(v))

\* The cookies the browser attaches to a same-origin request of the tab, as
\* the route's cookieStore reads them: every cookie of the store, those
\* with the HttpOnly attribute included
SentCookies ==
    [k \in DOMAIN cookies \cup DOMAIN httpJar |->
        Join(IF k \in DOMAIN httpJar THEN httpJar[k] ELSE cookies[k])]

\* The requests the pages of the tab send to the routes
TabForms ==
    { [username |-> <<"alice">>, password |-> <<"pw1">>],
      [k \in {"username"} |-> <<"alice">>] }

\* The remote API's answers to them: success, an expired or refused token,
\* no answer
TabGrantAnswers ==
    { a \in GrantAnswers :
        \/ a.kind = "error"
        \/ a.status = 200
        \/ a.status = 401 /\ a.body.text = "invalid_grant" }

TabErrors ==
    { a \in RemoteErrors : a.status = 401 /\ a.body.text = "invalid_grant" }

BInit == SInit /\ MIdle /\ GIdle

BNext ==
    \/ \E r \in TabReqs : Request(r)
    \/ \E r \in TabReqs : RespondOk(r)
    \/ \E r \in TabReqs : RespondError(r, FailureOf(r))
    \/ \E r \in TabReqs : Respond401(r)
    \/ \E d \in AllRefreshData : RefreshSuccess(d)
    \/ \E e \in RefreshErrors : RefreshFailure(e)
    \/ logout
    \/ \E f \in TabForms : LoginPOST([form |-> f]) /\ ToTab
    \/ \E a \in TabGrantAnswers : LoginPOSTDone(a) /\ ToTab
    \/ \E q \in {[page |-> "1", count |-> "20"]} :
          PatientsGET([cookies |-> SentCookies, query |-> q]) /\ ToTab
    \/ \E a \in RemoteOk({[total |-> 7, entry |-> <<>>,
                        link |-> <<Link("self")>>]}) \cup TabErrors :
          PatientsGETDone(a) /\ ToTab
    \/ \E id \in {"42"} :
          PatientGET([cookies |-> SentCookies, id |-> id]) /\ ToTab
    \/ \E a \in RemoteOk({BaseResource}) \cup TabErrors :
          PatientGETDone(a) /\ ToTab
    \/ \E b \in {BaseResource} :
          PatientPUT([cookies |-> SentCookies, id |-> b.id,
                      body |-> [json |-> "object", value |-> b]]) /\ ToTab
    \/ \E a \in RemoteOk({BaseResource}) \cup TabErrors :
          PatientPUTDone(a) /\ ToTab
    \/ \E e \in arriving : Receive(e)

\* The browser tab over the server routes
BrowserSpec == BInit /\ [][BNext]_vars

----------------------------------------------------------------------------
(* Step and state descriptions used by the properties *)

\* Call r receives a 401 response in this step
Gets401(r) == got401'[r] = got401[r] + 1

\* The refresh endpoint answers in this step
RefreshAnswered == Len(refreshLog') = Len(refreshLog) + 1

LastAnswer == refreshLog'[Len(refreshLog')]

\* Call r is issued (again) in this step
Issued(r) == attempts'[r] = attempts[r] + 1

\* The token cookies of a jar
TokensOf(jar) == [k \in DOMAIN jar \cap TokenNames |-> jar[k]]

\* The cookie pair that holds exactly the tokens of refresh response d
PairOf(d) ==
    [access_token |-> TemplateStr(Field(d, "access_token")),
     refresh_token |-> TemplateStr(Field(d, "refresh_token"))]

----------------------------------------------------------------------------
(* C1: at most one call to the refresh endpoint is in flight in every      *)
(* reachable state, whatever the number of calls and the order of their    *)
(* 401 responses and the refresh response.                                 *)
C1_SingleFlight == refreshInFlight <= 1

\* A refresh is in flight and a 401 that arrived meanwhile sits in the queue
C1_Witness ==
    /\ refreshInFlight = 1
    /\ isRefreshing
    /\ \E r \in Reqs : r \in Queued /\ got401[r] = 1 /\ r # refreshOwner

(* C2 (as claimed): when all calls were first issued before any refresh    *)
(* and no retry was answered 401, exactly one refresh call is issued over  *)
(* the whole run and every retry carries the access token that refresh     *)
(* returned, whatever order the 401 responses and the refresh response     *)
(* arrive in.                                                              *)
C2_ExactlyOneRefresh ==
    (/\ ~lateCall
     /\ \A r \in Reqs : phase[r] # "new" /\ got401[r] <= 1
     /\ \A i \in 1..Len(refreshLog) :
           refreshLog[i].ok /\ "access_token" \in DOMAIN refreshLog[i].data)
    => /\ refreshCalls <= 1
       /\ \A r \in Reqs :
            (attempts[r] = 2 /\ refreshLog # <<>>)
            => auth[r] = Field(refreshLog[1].data, "access_token")

(* C3 (as claimed): a 401 received on the retry of any call, the one that  *)
(* triggered the refresh or one that was queued during it, fails the call: *)
(* no further refresh call, not queued again, never issued a third time.   *)
C3_NoInfiniteRetry ==
    [][\A r \in Reqs :
         /\ (Gets401(r) /\ attempts[r] >= 2)
            => /\ phase'[r] = "failed"
               /\ refreshCalls' = refreshCalls
               /\ failedQueue' = failedQueue
         /\ attempts'[r] <= 2]_vars

(* C4 (as claimed): once a refresh has succeeded and its pair is stored, a *)
(* 401 arriving for a call that was sent with the previous access token    *)
(* starts no second refresh.                                               *)
C4_NoOverwriteOfValidPair ==
    [][\A r \in Reqs :
         (/\ Gets401(r)
          /\ refreshLog # <<>>
          /\ refreshLog[Len(refreshLog)].ok
          /\ DOMAIN refreshLog[Len(refreshLog)].data
                = {"access_token", "refresh_token"}
          /\ TokensOf(cookies) = PairOf(refreshLog[Len(refreshLog)].data)
          /\ auth[r] # NoHeader
          /\ auth[r] # AttachBearer(cookies, NoHeader))
         => refreshCalls' = refreshCalls]_vars

(* C5 (as claimed): no continuation is left pending once the queue has     *)
(* been emptied: every call waiting on a continuation is in the queue of a *)
(* refresh that is still in flight.                                        *)
C5_NoPendingContinuation ==
    \A r \in Reqs : phase[r] = "queued" => (r \in Queued /\ isRefreshing)

(* C6: when the refresh call fails, the client is IDLE afterwards, every   *)
(* queued continuation and the triggering call are rejected with the       *)
(* refresh error, both cookies are cleared, the redirect to /login is      *)
(* triggered, and no call is issued again.                                 *)
C6_RefreshFailure ==
    [][(RefreshAnswered /\ ~LastAnswer.ok)
       => /\ ~isRefreshing'
          /\ failedQueue' = <<>>
          /\ \A r \in Queued \cup {refreshOwner} :
                phase'[r] = "failed" /\ err'[r] = LastAnswer.error
          /\ ~CookieFound(cookies', "access_token")
          /\ ~CookieFound(cookies', "refresh_token")
          /\ location' = "/login"
          /\ attempts' = attempts]_vars

\* A refresh failed with a call queued behind it: both were rejected with
\* the refresh error and the jar holds no token
C6_Witness ==
    /\ refreshLog # <<>>
    /\ ~refreshLog[Len(refreshLog)].ok
    /\ location = "/login"
    /\ TokensOf(cookies) = Empty
    /\ \E t, r \in Reqs :
          /\ retry[t] /\ ~retry[r]
          /\ phase[t] = "failed" /\ phase[r] = "failed"
          /\ err[t] \in RefreshErrors /\ err[r] = err[t]
          /\ attempts[t] = 1 /\ attempts[r] = 1

(* C7: a successful refresh replaces both cookies by the pair of the       *)
(* refresh response in one step: whenever a call is issued or a            *)
(* continuation resumed, the stored pair is wholly that of one response,   *)
(* and the stored access token is the one handed to every resumed          *)
(* continuation.                                                           *)
C7_AtomicPairWrite ==
    [][(RefreshAnswered /\ LastAnswer.ok)
       => /\ TokensOf(cookies') = PairOf(LastAnswer.data)
          /\ \A r \in Reqs :
                (phase[r] = "queued" /\ phase'[r] = "sent")
                => /\ handed'[r] = cookies'["access_token"]
                   /\ handed'[r] = Field(LastAnswer.data, "access_token")
                   /\ Issued(r)]_vars

\* A queued continuation was resumed with the token that is now stored,
\* next to the refresh token of the same response
C7_Witness ==
    /\ refreshLog # <<>>
    /\ refreshLog[Len(refreshLog)].ok
    /\ TokensOf(cookies) = PairOf(refreshLog[Len(refreshLog)].data)
    /\ \E r \in Reqs :
          /\ phase[r] = "sent" /\ attempts[r] = 2 /\ ~retry[r]
          /\ handed[r] = cookies["access_token"]

(* C8: a 401 in state IDLE with no refresh token stored fails the call     *)
(* with the 401 error and triggers the redirect to /login; no refresh call *)
(* is issued, the call is not retried, and the client is IDLE afterwards.  *)
C8_NoRefreshToken ==
    [][\A r \in Reqs :
         (/\ Gets401(r)
          /\ ~retry[r]
          /\ ~isRefreshing
          /\ ~CookieFound(cookies, "refresh_token"))
         => /\ phase'[r] = "failed"
            /\ err'[r] = "401"
            /\ location' = "/login"
            /\ refreshCalls' = refreshCalls
            /\ refreshInFlight' = refreshInFlight
            /\ attempts' = attempts
            /\ ~isRefreshing']_vars

\* A first attempt was answered 401 with no refresh token in the jar
C8_Witness ==
    /\ refreshCalls = 0
    /\ ~isRefreshing
    /\ location = "/login"
    /\ ~CookieFound(cookies, "refresh_token")
    /\ \E r \in Reqs :
          /\ phase[r] = "failed" /\ err[r] = "401"
          /\ got401[r] = 1 /\ attempts[r] = 1

\* handleSave runs in this step and the PUT route forwards its body
Saved == saves' = saves + 1 /\ putInFlight'.rejected = 0

\* Top-level fields the edit form writes
CoveredKeys ==
    {"name", "gender", "birthDate", "active", "maritalStatus", "telecom"}

(* C9: the document sent to the remote API on save keeps every field of    *)
(* the raw resource that the edit does not cover (every top-level field    *)
(* but name, gender, birthDate, active, maritalStatus, telecom, and every  *)
(* field of maritalStatus but text) identical to its value in the raw      *)
(* resource.                                                               *)
C9_UncoveredFieldsKept ==
    [][Saved
       => LET raw == patient.raw
              doc == putInFlight'.body
          IN  /\ \A k \in DOMAIN raw \ CoveredKeys :
                    Has(doc, k) /\ doc[k] = raw[k]
              /\ Has(raw, "maritalStatus")
                 => \A k \in DOMAIN raw.maritalStatus \ {"text"} :
                       /\ Has(doc.maritalStatus, k)
                       /\ doc.maritalStatus[k] = raw.maritalStatus[k]]_vars

\* An edited document was sent that still carries the address, identifier,
\* extension, meta and deceased flag of the raw resource and the coding of
\* its marital status
C9_Witness ==
    /\ saves = 1
    /\ edits >= 1
    /\ saving
    /\ putInFlight.rejected = 0
    /\ putInFlight.body.name[1].family = "Roe"
    /\ {"address", "identifier", "extension", "meta", "deceasedBoolean"}
          \subseteq DOMAIN putInFlight.body
    /\ Has(putInFlight.body.maritalStatus, "coding")
    /\ Has(putInFlight.body.maritalStatus, "text")

(* C10 (as claimed): for every raw resource and every edit, empty strings  *)
(* included, the view of the saved document shows exactly the edited       *)
(* values of name.family, name.given, gender, birthDate, active,           *)
(* maritalStatus and telecom.                                              *)
C10_RoundTrip ==
    [][Saved
       => LET view == PutFormatted(putInFlight'.body)
          IN  /\ view.name.family = formData.name.family
              /\ view.name.given = formData.name.given
              /\ view.gender = formData.gender
              /\ view.birthDate = formData.birthDate
              /\ view.active = formData.active
              /\ view.maritalStatus = formData.maritalStatus
              /\ view.telecom = formData.telecom]_vars

----------------------------------------------------------------------------
(* Server routes: state descriptions used by the properties *)

\* The request carries no access_token cookie
NoAccessCookie == ~Has(routeIn.cookies, "access_token")

\* The route has answered after a remote answer with a status
RemoteAnswered ==
    routePhase = "answered" /\ remote # Empty /\ remote.kind = "response"

(* C11: a list, get or update request without an access_token cookie is    *)
(* answered 401 at once, whatever its query or body (malformed or with a   *)
(* mismatching id included): the route makes no call to the remote API,    *)
(* and so no refresh call either.                                          *)
C11_NoTokenIs401 ==
    (route \in {"list", "get", "update"} /\ NoAccessCookie)
    => /\ routePhase = "answered"
       /\ response.status = 401
       /\ outbound = <<>>
       /\ remote = Empty

\* An update without the cookie whose body id differs from the path id, and
\* one whose body is not JSON, were answered 401
C11_Witness ==
    /\ route = "update"
    /\ NoAccessCookie
    /\ \/ routeIn.body.json = "invalid"
       \/ /\ routeIn.body.json = "object"
          /\ Has(routeIn.body.value, "id")
          /\ routeIn.body.value.id # routeIn.id
    /\ response.status = 401
    /\ outbound = <<>>

\* The route holds an access token for the request
Authenticated ==
    Has(routeIn.cookies, "access_token") /\ routeIn.cookies.access_token # ""

\* The body of the update request is not JSON, or is JSON without a
\* resourceType or an id, or with an id other than the path id
BadPutBody ==
    \/ routeIn.body.json # "object"
    \/ ~Has(routeIn.body.value, "resourceType")
    \/ ~Has(routeIn.body.value, "id")
    \/ routeIn.body.value.id # routeIn.id

(* C12 (as claimed): an authenticated update whose body is not valid JSON, *)
(* lacks resourceType or id, or carries an id different from the path id   *)
(* is answered 400 and makes no call to the remote API.                    *)
C12_BadBodyIs400 ==
    (route = "update" /\ Authenticated /\ BadPutBody)
    => /\ routePhase = "answered"
       /\ response.status = 400
       /\ outbound = <<>>

(* C13: whenever the remote API answers a route's outbound call (grant,    *)
(* list, get, update) with a non-2xx status s, the route's response has    *)
(* status s; a remote 404 on get or update gives the body                  *)
(* {error: "Patient not found"}, and a remote 401 gives 401.               *)
C13_RemoteStatusPassedThrough ==
    (RemoteAnswered /\ ~Ok(remote.status))
    => /\ response.status = remote.status
       /\ (remote.status = 404 /\ route \in {"get", "update"})
          => response.body = [error |-> <<"Patient not found">>]

\* The remote API answered an update with 404 and the route answered 404
C13_Witness ==
    /\ route = "update"
    /\ RemoteAnswered
    /\ remote.status = 404
    /\ response.status = 404
    /\ response.body = [error |-> <<"Patient not found">>]

\* The login request carries no username or no password (its body is not
\* a form, or the form lacks the field), or one of them is empty
MissingCredentials ==
    \/ ~Has(routeIn, "form")
    \/ ~Has(routeIn.form, "username")
    \/ ~Has(routeIn.form, "password")
    \/ routeIn.form.username = <<>>
    \/ routeIn.form.password = <<>>

(* C14 (as claimed): a login request whose username or password is        *)
(* missing or empty is answered 400 with a validation detail, makes no     *)
(* call to the remote grant endpoint and sets no cookie.                   *)
C14_EmptyCredentialsRejected ==
    (route = "login" /\ MissingCredentials)
    => /\ routePhase = "answered"
       /\ response.status = 400
       /\ response.body.details # <<>>
       /\ outbound = <<>>
       /\ response.cookies = <<>>

\* The remote grant succeeded and the login route has answered
LoginSucceeded ==
    route = "login" /\ RemoteAnswered /\ Ok(remote.status)

(* C15 (as claimed): after a successful login the response sets exactly    *)
(* the cookies access_token and refresh_token with the values the remote   *)
(* grant returned, each HTTP-only, secure and SameSite=strict in every     *)
(* deployment, the access cookie's max-age shorter than the refresh        *)
(* cookie's; the response body is the remote token response.               *)
C15_LoginCookies ==
    LoginSucceeded
    => /\ Len(response.cookies) = 2
       /\ response.cookies[1].name = "access_token"
       /\ response.cookies[1].value = remote.body.access_token
       /\ response.cookies[2].name = "refresh_token"
       /\ response.cookies[2].value = remote.body.refresh_token
       /\ \A i \in 1..2 :
             /\ response.cookies[i].httpOnly
             /\ response.cookies[i].secure
             /\ response.cookies[i].sameSite = "strict"
       /\ response.cookies[1].maxAge < response.cookies[2].maxAge
       /\ response.body = remote.body

\* The remote grant failed and the login route has answered
LoginFailed ==
    /\ route = "login"
    /\ routePhase = "answered"
    /\ remote # Empty
    /\ ~(remote.kind = "response" /\ Ok(remote.status))

\* The log entry and the response of the failed login, had the password
\* been pw
FailedLoginWith(pw) ==
    LET body == GrantBody([routeIn.form EXCEPT !.password = pw])
    IN  [log |-> ErrorLog("Login error:", GrantErrorOf(body, remote)),
         response |-> IF remote.kind = "response"
                      THEN Json(remote.status, [error |-> <<remote.body.text>>])
                      ELSE Json(500, [error |-> <<"Unknown login error">>])]

(* C16 (as claimed): when the remote grant call fails, the login route's   *)
(* response and its log entry do not depend on the submitted password: a   *)
(* failed login with any other password and the same remote answer gives   *)
(* the same log entry and the same response.                               *)
C16_PasswordNotLeaked ==
    LoginFailed
    => \A pw \in {<<"pw1">>, <<"pw2">>} :
          /\ FailedLoginWith(pw).log = serverLog
          /\ FailedLoginWith(pw).response = response

\* A get or update was answered 200 with the view of the remote resource
ViewAnswered ==
    route \in {"get", "update"} /\ RemoteAnswered /\ Ok(remote.status)

\* The flattened view in that response
View ==
    IF route = "get" THEN response.body.formatted
    ELSE response.body.patient.formatted

\* A list request was answered 200
ListAnswered == route = "list" /\ RemoteAnswered /\ Ok(remote.status)

\* The resource has none of its optional fields
AllAbsent(p) == DOMAIN p \subseteq {"resourceType", "id"}

\* The documented fallbacks
FallbackView ==
    [identifier |-> "N/A",
     name |-> [family |-> "Unknown", given |-> <<"Unknown">>,
               full |-> <<"Unknown", " ", "Unknown">>],
     gender |-> "unknown",
     birthDate |-> "Unknown",
     active |-> FALSE,
     deceased |-> FALSE,
     maritalStatus |-> "Unknown",
     lastUpdated |-> "Unknown",
     telecom |-> <<>>,
     address |-> <<>>,
     ethnicity |-> "Unspecified"]

\* The fallbacks of a list item, which has no deceased, telecom, address
\* and ethnicity
FallbackItem ==
    [id |-> "N/A",
     identifier |-> "N/A",
     name |-> [family |-> "Unknown", given |-> <<"Unknown">>,
               full |-> <<"Unknown", " ", "Unknown">>],
     gender |-> "unknown",
     birthDate |-> "Unknown",
     active |-> FALSE,
     maritalStatus |-> "Unknown",
     lastUpdated |-> "Unknown"]

(* C17: for a remote resource with every optional field absent the view of *)
(* get and update has every field at its documented fallback, and so has   *)
(* the list item of such an entry (no property is left undefined); a       *)
(* bundle without total or entry gives total = 0 and patients = [].        *)
C17_FallbackCompleteness ==
    /\ (ViewAnswered /\ AllAbsent(remote.body)) => View = FallbackView
    /\ ListAnswered
       => /\ ~Has(remote.body, "total") => response.body.total = 0
          /\ ~Has(remote.body, "entry") => response.body.patients = <<>>
          /\ Has(remote.body, "entry")
             => \A i \in 1..Len(remote.body.entry) :
                   AllAbsent(remote.body.entry[i].resource)
                   => response.body.patients[i] = FallbackItem

\* A get was answered for a resource that has only resourceType and id
C17_Witness ==
    /\ ViewAnswered
    /\ route = "get"
    /\ remote.body = BaseResource
    /\ View.name.given = <<"Unknown">>
    /\ View.ethnicity = "Unspecified"

\* The bundle has a link with relation rel
HasLink(data, rel) ==
    /\ Has(data, "link")
    /\ \E i \in 1..Len(data.link) :
          Has(data.link[i], "relation") /\ data.link[i].relation = rel

(* C18: in the list response hasNext is true exactly when the remote       *)
(* bundle has a link with relation "next" and hasPrev exactly when it has  *)
(* a link to the previous page (relation "prev"), whatever the total and   *)
(* the entries.                                                            *)
C18_PaginationFromLinks ==
    ListAnswered
    => /\ response.body.pagination.hasNext = HasLink(remote.body, "next")
       /\ response.body.pagination.hasPrev = HasLink(remote.body, "prev")

\* A bundle with entries, no total and only a "next" link gave
\* hasNext = true and hasPrev = false
C18_Witness ==
    /\ ListAnswered
    /\ Has(remote.body, "link")
    /\ remote.body.link = <<Link("next")>>
    /\ ~Has(remote.body, "total")
    /\ Has(remote.body, "entry") /\ Len(remote.body.entry) = 2
    /\ response.body.pagination.hasNext
    /\ ~response.body.pagination.hasPrev

\* The extensions of p with the us-core-ethnicity url
EthnicityExtensions(p) ==
    LET seq == IF Has(p, "extension") THEN p.extension ELSE <<>>
    IN  {seq[i] : i \in {j \in 1..Len(seq) :
                           Has(seq[j], "url") /\ seq[j].url = EthnicityUrl}}

\* The sub-extensions of e with url "text"
TextSubExtensions(e) ==
    LET seq == IF Has(e, "extension") THEN e.extension ELSE <<>>
    IN  {seq[i] : i \in {j \in 1..Len(seq) :
                           Has(seq[j], "url") /\ seq[j].url = "text"}}

\* The non-empty values of the text sub-extensions of the ethnicity
\* extensions of p
EthnicityTexts(p) ==
    {t.valueString :
       t \in {s \in UNION {TextSubExtensions(e) : e \in EthnicityExtensions(p)} :
                Has(s, "valueString") /\ s.valueString # ""}}

(* C19 (as claimed): the view's ethnicity is the valueString of the        *)
(* sub-extension with url "text" nested in the extension with the          *)
(* us-core-ethnicity url when the resource has such a non-empty value, and *)
(* "Unspecified" in every other case.                                      *)
C19_AnyEthnicityText ==
    ViewAnswered
    => IF EthnicityTexts(remote.body) = {}
       THEN View.ethnicity = "Unspecified"
       ELSE View.ethnicity \in EthnicityTexts(remote.body)

\* The first element of seq whose url is u, without properties when there
\* is none
RECURSIVE FirstWithUrl(_, _)
FirstWithUrl(seq, u) ==
    IF seq = <<>> THEN Empty
    ELSE IF Has(Head(seq), "url") /\ Head(seq).url = u THEN Head(seq)
    ELSE FirstWithUrl(Tail(seq), u)

\* The value of the first text sub-extension of the first ethnicity
\* extension of p, "Unspecified" when it is absent or empty
FirstEthnicityText(p) ==
    LET e == FirstWithUrl(IF Has(p, "extension") THEN p.extension ELSE <<>>,
                          EthnicityUrl)
        t == FirstWithUrl(IF Has(e, "extension") THEN e.extension ELSE <<>>,
                          "text")
    IN  IF Has(t, "valueString") /\ t.valueString # "" THEN t.valueString
        ELSE "Unspecified"

(* C19: the view's ethnicity is the valueString of the first sub-extension *)
(* with url "text" of the first extension with the us-core-ethnicity url   *)
(* when that value exists and is not empty, and "Unspecified" in every     *)
(* other case, also when a later extension or sub-extension has a value.   *)
C19_Ethnicity ==
    ViewAnswered => View.ethnicity = FirstEthnicityText(remote.body)

\* A resource whose first ethnicity extension has no text and whose second
\* has the text "Hispanic" was shown as "Unspecified"
C19_Witness ==
    /\ ViewAnswered
    /\ Has(remote.body, "extension")
    /\ Len(remote.body.extension) = 2
    /\ remote.body.extension[1].url = EthnicityUrl
    /\ EthnicityTexts(remote.body) = {"Hispanic"}
    /\ View.ethnicity = "Unspecified"

(* C20 (as claimed): every call the Session Client issues while an access  *)
(* token is stored, a first attempt or a retry after a refresh, carries    *)
(* Authorization: Bearer <the access token in the Token Store>.            *)
C20_BearerIsStoredToken ==
    [][\A r \in Reqs :
          (Issued(r) /\ CookieFound(cookies', "access_token"))
          => auth'[r] = cookies'["access_token"]]_vars

\* Call r fails in this step otherwise than with a 401 response
FailsOtherThan401(r) ==
    phase[r] = "sent" /\ phase'[r] = "failed" /\ ~Gets401(r)

(* C21: a call that fails with anything other than a 401 response (another *)
(* status, a network error, a timeout) is rejected to the caller with the  *)
(* same error, and the step leaves the refresh state, the queue and the    *)
(* Token Store unchanged: no refresh call, no retry, no redirect.          *)
C21_OtherErrorsPropagate ==
    [][\A r \in Reqs :
          FailsOtherThan401(r)
          => /\ err'[r] = FailureOf(r)
             /\ UNCHANGED <<isRefreshing, failedQueue, cookies, location,
                            retry, attempts, auth, handed, refreshInFlight,
                            refreshCalls, refreshSent, refreshOwner,
                            refreshLog>>]_vars

\* Call 2 failed with a network error while call 1's refresh is in flight
\* and call 3 waits in the queue: the refresh, the queue and the stored pair
\* are as they were
C21_Witness ==
    /\ phase[2] = "failed" /\ err[2] = "ERR_NETWORK" /\ attempts[2] = 1
    /\ isRefreshing /\ refreshInFlight = 1 /\ refreshOwner = 1
    /\ failedQueue = <<3>>
    /\ CookieFound(cookies, "access_token")
    /\ location = "/app"

\* The Token Store: the cookies of the tab, readable by scripts or not
TokenStore == <<cookies, httpJar>>

\* The page receives the answer of a successful login in this step
LoginStored ==
    \E e \in arriving :
       /\ e.route = "login" /\ e.status = 200
       /\ arriving' = arriving \ {e}

(* C22: the stored token pair changes only in a successful login, in       *)
(* logout, and in the refresh critical section (the refresh call is        *)
(* answered while isRefreshing is set).  Attaching the bearer header, the  *)
(* list, get and update routes, the absent-refresh-token path and non-401  *)
(* failures neither write nor clear a token.                               *)
C22_TokenStoreWriters ==
    [][TokenStore' # TokenStore
       => \/ LoginStored
          \/ logout
          \/ isRefreshing /\ RefreshAnswered]_vars

\* A refresh wrote a pair, the retried call failed with a 500, logout
\* cleared the pair, a login stored a new one, the list route answered
\* and the page has received every response
C22_Witness ==
    /\ Len(refreshLog) = 1 /\ refreshLog[1].ok
    /\ attempts[1] = 2 /\ err[1] = "500"
    /\ location = "/login" /\ TokensOf(cookies) = Empty
    /\ Has(httpJar, "access_token") /\ Has(httpJar, "refresh_token")
    /\ route = "list" /\ routePhase = "answered" /\ response.status = 200
    /\ arriving = {}

\* A patient route was answered after its call to the remote API threw
\* (an exception the route does not expect)
UnexpectedException ==
    /\ route \in {"list", "get", "update"}
    /\ routePhase = "answered" /\ remote # Empty
    /\ remote.kind = "error"

\* A patient route was answered after the remote API returned an error
RemoteFailed ==
    /\ route \in {"list", "get", "update"}
    /\ RemoteAnswered
    /\ remote.kind = "response" /\ ~Ok(remote.status)

\* The response the running route gives to the remote API's answer a
ResponseTo(a) ==
    CASE route = "list" ->
           PatientsGETResponse(a, StrOr(routeIn.query, "page", "1"))
      [] route = "get" -> PatientGETResponse(a)
      [] route = "update" -> PatientPUTResponse(a)

(* C23 (as claimed): a route that hits an unexpected exception answers 500 *)
(* with a generic message: the response body is the one the route gives    *)
(* for any other text of the exception, and a response to an error of the  *)
(* remote API is the one the route gives for any other body of that error. *)
C23_GenericFailureBody ==
    /\ UnexpectedException
       => /\ response.status = 500
          /\ \A e \in NetworkErrors : ResponseTo(e).body = response.body
    /\ RemoteFailed
       => \A t \in ErrorTexts :
             ResponseTo([remote EXCEPT !.body.text = t]).body = response.body

\* The tab holds neither token, readable by scripts or not
PairDestroyed ==
    \A k \in {"access_token", "refresh_token"} :
       ~Has(cookies, k) /\ ~Has(httpJar, k)

(* C24 (as claimed): after logout() the token pair is destroyed, whether a *)
(* login or a refresh wrote it: the tab holds neither token,               *)
(* getAccessToken() and getRefreshToken() return null, isAuthenticated()   *)
(* is false, the redirect to /login is triggered, and a Session Client     *)
(* request made then carries no Authorization header.                      *)
C24_LogoutDestroysPair ==
    [][logout
       => /\ PairDestroyed'
          /\ getAccessToken(cookies') = Null
          /\ getRefreshToken(cookies') = Null
          /\ ~isAuthenticated(cookies')
          /\ location' = "/login"
          /\ AttachBearer(cookies', NoHeader) = NoHeader]_vars

\* Call r receives the first 401 of the session in this step: no refresh
\* is under way and the call has not been retried
First401(r) == Gets401(r) /\ ~retry[r] /\ ~isRefreshing

(* C25 (as claimed): once a login has stored the token pair in HTTP-only   *)
(* cookies, a 401 on a Session Client request makes the client read that   *)
(* refresh token from the cookies and issue the refresh-grant call with    *)
(* it; the session does not end in the absent-refresh-token redirect.      *)
C25_RefreshAfterLogin ==
    [][\A r \in Reqs :
          (First401(r) /\ Has(httpJar, "refresh_token"))
          => /\ refreshCalls' = refreshCalls + 1
             /\ refreshSent' = httpJar["refresh_token"]
             /\ location' = location]_vars

(* C26 (as claimed): whenever the modal is open and not loading, the       *)
(* patient it displays and would save belongs to the selected patientId,   *)
(* for any order of open and close actions and fetch completions.          *)
C26_ModalShowsSelected ==
    (modalOpen /\ ~loading /\ patient # Empty)
    => /\ patient.id = selectedPatientId
       /\ patient.raw.id = selectedPatientId

(* C27 (as claimed): opening a patient for edit and saving without        *)
(* changing any form field sends the remote API a document equal to the    *)
(* raw resource that was loaded, for every raw resource, those with absent *)
(* optional fields included: no display fallback is written back and no    *)
(* name entry or name sub-field is dropped.                                *)
C27_SaveWithoutChange ==
    [][(Saved /\ edits = 0 /\ saves = 0)
       => putInFlight'.body = patient.raw]_vars

\* The fields the list item and the formatted view have in common
CommonFields ==
    {"identifier", "name", "gender", "birthDate", "active", "maritalStatus",
     "lastUpdated"}

Common(v) == [k \in CommonFields |-> v[k]]

\* The entries of the bundle the list request was answered with
AnsweredEntries == ArrOr(remote.body, "entry", <<>>)

(* C28: the three flattening paths agree.  For a remote patient resource   *)
(* with an id, the list item has the id, identifier, name (family, given,  *)
(* full), gender, birthDate, active, maritalStatus and lastUpdated that    *)
(* the get and update transformations give, and the get and update         *)
(* transformations agree on every formatted field.                         *)
C28_FlatteningsAgree ==
    /\ ViewAnswered
       => LET p == remote.body
              item == ListItem([resource |-> p])
          IN  /\ View = GetFormatted(p)
              /\ View = PutFormatted(p)
              /\ Common(View) = Common(item)
              /\ p.id = item.id
    /\ ListAnswered
       => \A i \in DOMAIN AnsweredEntries :
             LET p == AnsweredEntries[i].resource
                 item == response.body.patients[i]
             IN  Has(p, "id")
                 => /\ Common(item) = Common(GetFormatted(p))
                    /\ Common(item) = Common(PutFormatted(p))
                    /\ item.id = p.id

\* A list was answered whose second patient has an id and an empty gender,
\* shown as 'unknown' as the get and update routes would show it
C28_Witness ==
    /\ ListAnswered
    /\ Len(response.body.patients) = 2
    /\ response.body.patients[2].id = "43"
    /\ response.body.patients[2].gender = "unknown"
    /\ GetFormatted(AnsweredEntries[2].resource).gender = "unknown"

====
